---- MODULE Spec2Model ----
(***************************************************************************)
(* Entity validation of GraFlow (entity_validator.py): the three scorer    *)
(* variants, the checkpointed batch runner validate_batch, the checkpoint  *)
(* file it rewrites and the report; and the output monitoring of           *)
(* run_indexing (pipeline_orchestrator.py).                                *)
(*                                                                         *)
(* Texts are sequences of one-character strings.  Confidences are exact    *)
(* fractions with denominator ConfScale.  Entity identifiers are numbers   *)
(* 1..NumEntities; EmptyId stands for the empty string "".  The clock of    *)
(* validation_time advances by one with each remote or inference call.     *)
(***************************************************************************)
EXTENDS Integers, Sequences, FiniteSets, TLC

(***************************************************************************)
(* Bounds of the model.                                                    *)
(***************************************************************************)
\* number of rows of entities.parquet
NumEntities == 24
\* a run is started only when its result list cannot outgrow this length
MaxResults == 28

(***************************************************************************)
(* Program constants.                                                      *)
(***************************************************************************)
\* "if len(results) % 10 == 0"
CheckpointEvery == 10
\* source_texts[:3]
MaxSources == 3
\* "if len(sentence) < 10"
MinSentenceLen == 10
\* "len(word) > 3"
MinTermLen == 3
\* source_text[:1000]
SourceCut == 1000
\* entity_id="" on the spot-check path
EmptyId == 0
\* unit of the confidence fractions: confidence c stands for c / ConfScale
ConfScale == 600

Tenths(n) == n * (ConfScale \div 10)

(***************************************************************************)
(* str: the operations of Python's str the scorers use.                    *)
(***************************************************************************)
LowerLetters ==
  <<"a","b","c","d","e","f","g","h","i","j","k","l","m",
    "n","o","p","q","r","s","t","u","v","w","x","y","z">>
UpperLetters ==
  <<"A","B","C","D","E","F","G","H","I","J","K","L","M",
    "N","O","P","Q","R","S","T","U","V","W","X","Y","Z">>
Range(s) == {s[i] : i \in DOMAIN s}
Alpha == Range(LowerLetters) \cup Range(UpperLetters)
Whitespace == {" ", "\n", "\t"}
\* the argument of word.strip('.,;:!?()"\'')
StripChars == {".", ",", ";", ":", "!", "?", "(", ")", "\"", "'"}

Min(a, b) == IF a < b THEN a ELSE b
Max(a, b) == IF a > b THEN a ELSE b

\* c.lower()
LowerChar(c) ==
  IF \E i \in 1..26 : UpperLetters[i] = c
    THEN LowerLetters[CHOOSE i \in 1..26 : UpperLetters[i] = c]
    ELSE c
\* c.upper()
UpperChar(c) ==
  IF \E i \in 1..26 : LowerLetters[i] = c
    THEN UpperLetters[CHOOSE i \in 1..26 : LowerLetters[i] = c]
    ELSE c
\* s.lower()
Lower(s) == [i \in 1..Len(s) |-> LowerChar(s[i])]
\* s.upper()
Upper(s) == [i \in 1..Len(s) |-> UpperChar(s[i])]
\* s.isalpha()
IsAlpha(s) == Len(s) > 0 /\ \A i \in 1..Len(s) : s[i] \in Alpha
\* t in s
Contains(s, t) ==
  \E i \in 1..(Len(s) - Len(t) + 1) : SubSeq(s, i, i + Len(t) - 1) = t
\* s.startswith(t)
StartsWith(s, t) == Len(s) >= Len(t) /\ SubSeq(s, 1, Len(t)) = t
\* s[:n]
Take(s, n) == SubSeq(s, 1, Min(n, Len(s)))

\* s.strip(chars)
RECURSIVE LStrip(_, _)
LStrip(s, chars) ==
  IF s # <<>> /\ Head(s) \in chars THEN LStrip(Tail(s), chars) ELSE s
RECURSIVE RStrip(_, _)
RStrip(s, chars) ==
  IF s # <<>> /\ s[Len(s)] \in chars
    THEN RStrip(SubSeq(s, 1, Len(s) - 1), chars)
    ELSE s
Strip(s, chars) == RStrip(LStrip(s, chars), chars)

\* s.split(sep) for a one-character sep: empty pieces are kept
RECURSIVE SplitOn(_, _)
SplitOn(s, sep) ==
  IF \E i \in 1..Len(s) : s[i] = sep
    THEN LET i == CHOOSE k \in 1..Len(s) :
                    s[k] = sep /\ \A j \in 1..(k - 1) : s[j] # sep
         IN <<SubSeq(s, 1, i - 1)>> \o SplitOn(SubSeq(s, i + 1, Len(s)), sep)
    ELSE <<s>>

\* s.split(): pieces between runs of whitespace, none of them empty
RECURSIVE SplitWs(_)
SplitWs(s) ==
  LET t == LStrip(s, Whitespace)
  IN IF t = <<>> THEN <<>>
     ELSE IF \E i \in 1..Len(t) : t[i] \in Whitespace
       THEN LET i == CHOOSE k \in 1..Len(t) :
                       t[k] \in Whitespace
                       /\ \A j \in 1..(k - 1) : t[j] \notin Whitespace
            IN <<SubSeq(t, 1, i - 1)>> \o SplitWs(SubSeq(t, i, Len(t)))
       ELSE <<t>>

\* sep.join(parts)
RECURSIVE Join(_, _)
Join(parts, sep) ==
  IF parts = <<>> THEN <<>>
  ELSE IF Len(parts) = 1 THEN parts[1]
  ELSE parts[1] \o sep \o Join(Tail(parts), sep)

\* sum(s)
RECURSIVE SumSeq(_)
SumSeq(s) == IF s = <<>> THEN 0 ELSE Head(s) + SumSeq(Tail(s))

(***************************************************************************)
(* The data the validator loads: text_units.parquet and entities.parquet.  *)
(***************************************************************************)
\* 'Acme makes maps.'
TextT1 ==
  <<"A","c","m","e"," ","m","a","k","e","s"," ","m","a","p","s",".">>
\* 'Acme ships boats.'
TextT2 ==
  <<"A","c","m","e"," ","s","h","i","p","s"," ","b","o","a","t","s",".">>
\* 't1'
IdT1 == <<"t","1">>
\* 't2'
IdT2 == <<"t","2">>
\* 'tx': the id of no text unit
IdMissing == <<"t","x">>
\* '["t1", "t2"]': a text_unit_ids cell stored as a str
IdsAsStr ==
  <<"[","\"","t","1","\"",","," ","\"","t","2","\"","]">>
\* 'Acme'
TitleAcme == <<"A","c","m","e">>
\* 'Zeta'
TitleZeta == <<"Z","e","t","a">>
\* 'Acme makes maps.'
DescSupported ==
  <<"A","c","m","e"," ","m","a","k","e","s"," ","m","a","p","s",".">>
\* 'Acme sells used cars daily'
DescLowCoverage ==
  <<"A","c","m","e"," ","s","e","l","l","s"," ","u","s","e","d"," ",
    "c","a","r","s"," ","d","a","i","l","y">>
\* 'Acme sells maps. Acme made boats.'
DescUncertain ==
  <<"A","c","m","e"," ","s","e","l","l","s"," ","m","a","p","s","."," ",
    "A","c","m","e"," ","m","a","d","e"," ","b","o","a","t","s",".">>
\* 'It is. An org.'
DescNoTerms ==
  <<"I","t"," ","i","s","."," ","A","n"," ","o","r","g",".">>

\* self.text_unit_map: the ids of text_units.parquet and their texts
TextUnitIds == {IdT1, IdT2}
text_unit_map(tid) == IF tid = IdT1 THEN TextT1 ELSE TextT2

\* a text_unit_ids cell: a sequence of ids, or a str holding its JSON text
ListCell(ids) == [kind |-> "list", val |-> ids]
StrCell(text) == [kind |-> "str", val |-> text]

\* the rows of entities.parquet: six kinds of row, repeated down the table
EntityRow(i) ==
  LET k == ((i - 1) % 6) + 1
  IN [id |-> i,
      title |-> IF k = 2 THEN TitleZeta ELSE TitleAcme,
      type |-> IF k = 2 THEN "PERSON" ELSE "ORGANIZATION",
      description |->
        CASE k \in {1, 2, 3} -> DescSupported
          [] k = 4 -> DescLowCoverage
          [] k = 5 -> DescUncertain
          [] OTHER -> DescNoTerms,
      text_unit_ids |->
        CASE k = 3 -> ListCell(<<IdMissing>>)
          [] k = 5 -> StrCell(IdsAsStr)
          [] k = 4 -> ListCell(<<IdMissing, IdT1, IdT2>>)
          [] OTHER -> ListCell(<<IdT1>>)]
\* self.entities_df, in row order
entities_df == [i \in 1..NumEntities |-> EntityRow(i)]

(***************************************************************************)
(* EntityValidator.get_source_texts                                        *)
(***************************************************************************)
\* json.loads of the text of a list of strings
JsonLoadsIds(text) ==
  LET t == Strip(text, Whitespace)
      inner == Strip(SubSeq(t, 2, Len(t) - 1), Whitespace)
      pieces == IF inner = <<>> THEN <<>> ELSE SplitOn(inner, ",")
  IN [i \in 1..Len(pieces) |-> Strip(Strip(pieces[i], Whitespace), {"\""})]

\* variant of the loop that stops at the first id text_unit_map lacks
RECURSIVE LookupTextsUntilMissing(_)
LookupTextsUntilMissing(ids) ==
  IF ids = <<>> \/ Head(ids) \notin TextUnitIds THEN <<>>
  ELSE <<text_unit_map(Head(ids))>> \o LookupTextsUntilMissing(Tail(ids))

\* the texts of the ids that text_unit_map holds, in the order of ids
RECURSIVE LookupTexts(_)
LookupTexts(ids) ==
  IF ids = <<>> THEN <<>>
  ELSE (IF Head(ids) \in TextUnitIds
          THEN <<text_unit_map(Head(ids))>> ELSE <<>>)
       \o LookupTexts(Tail(ids))

get_source_texts(entity_row) ==
  LET cell == entity_row.text_unit_ids
      text_unit_ids == IF cell.kind = "str" THEN JsonLoadsIds(cell.val)
                       ELSE cell.val
  IN LookupTexts(text_unit_ids)

(***************************************************************************)
(* ValidationResult and the issue strings.  An issue is the text of its    *)
(* format string together with the values formatted into it.               *)
(***************************************************************************)
Issue(msg, text, num) == [msg |-> msg, text |-> text, num |-> num]
NoSourceIssue == Issue("No source texts available", <<>>, 0)

ValidationResult(id, name, type, description, confidence, is_hallucinated, method, issues, validation_time) ==
  [entity_id |-> id, entity_name |-> name, entity_type |-> type,
   description |-> description, confidence |-> confidence,
   is_hallucinated |-> is_hallucinated, method |-> method,
   issues |-> issues, validation_time |-> validation_time]

\* variant of the early return that flags the entity
NoSourceResultFlagged(entity_row, method) ==
  ValidationResult(entity_row.id, entity_row.title, entity_row.type,
                   entity_row.description, Tenths(8), TRUE, method,
                   <<NoSourceIssue>>, 0)

\* the early return of each validate_entity when there is no source text
NoSourceResult(entity_row, method) ==
  ValidationResult(entity_row.id, entity_row.title, entity_row.type,
                   entity_row.description, 0, FALSE, method,
                   <<NoSourceIssue>>, 0)

\* what validate_entity hands to validate_batch: a result, or an exception
Returned(r) == [raised |-> FALSE, result |-> r]
Raised(e) == [raised |-> TRUE, error |-> e]

(***************************************************************************)
(* The remote LLM (client.chat.completions.create) and the NLI model, as   *)
(* the scorers see them.  A remote call ends in an exception, in a         *)
(* response whose content is None, or in a response with a text content.   *)
(***************************************************************************)
RemoteError(msg) == [kind |-> "error", err |-> msg]
RemoteNone == [kind |-> "none"]
RemoteContent(text) == [kind |-> "content", content |-> text]

\* 'SUPPORTED:'
LabelSupported == <<"S","U","P","P","O","R","T","E","D",":">>
\* 'CONFIDENCE:'
LabelConfidence == <<"C","O","N","F","I","D","E","N","C","E",":">>
\* 'ISSUES:'
LabelIssues == <<"I","S","S","U","E","S",":">>
\* 'REASON:'
LabelReason == <<"R","E","A","S","O","N",":">>
\* 'YES'
WordYes == <<"Y","E","S">>
\* 'HALLUCINATED'
WordHallucinated == <<"H","A","L","L","U","C","I","N","A","T","E","D">>
\* 'none'
WordNone == <<"n","o","n","e">>
\* 'none.'
WordNoneDot == <<"n","o","n","e",".">>
\* '\n\n---\n\n'
SourceSeparator == <<"\n","\n","-","-","-","\n","\n">>
\* 'SUPPORTED: YES\nCONFIDENCE: 0.9\nISSUES: None'
ReplySupported ==
  <<"S","U","P","P","O","R","T","E","D",":"," ","Y","E","S","\n","C","O",
    "N","F","I","D","E","N","C","E",":"," ","0",".","9","\n","I","S","S",
    "U","E","S",":"," ","N","o","n","e">>
\* 'SUPPORTED: NO\nCONFIDENCE: 0.2 (low)\nISSUES: Claims not in sources'
ReplyUnsupported ==
  <<"S","U","P","P","O","R","T","E","D",":"," ","N","O","\n","C","O","N",
    "F","I","D","E","N","C","E",":"," ","0",".","2"," ","(","l","o","w",")",
    "\n","I","S","S","U","E","S",":"," ","C","l","a","i","m","s"," ","n",
    "o","t"," ","i","n"," ","s","o","u","r","c","e","s">>
\* 'I cannot judge this.'
ReplyMalformed ==
  <<"I"," ","c","a","n","n","o","t"," ","j","u","d","g","e"," ","t","h","i",
    "s",".">>
\* 'VERDICT: ACCURATE\nCONFIDENCE: 0.9\nREASON: Matches the source.'
ReplyAccurate ==
  <<"V","E","R","D","I","C","T",":"," ","A","C","C","U","R","A","T","E",
    "\n","C","O","N","F","I","D","E","N","C","E",":"," ","0",".","9","\n",
    "R","E","A","S","O","N",":"," ","M","a","t","c","h","e","s"," ","t","h",
    "e"," ","s","o","u","r","c","e",".">>
\* 'VERDICT: HALLUCINATED\nCONFIDENCE: 0.8\nREASON: Not in the source.'
ReplyHallucinated ==
  <<"V","E","R","D","I","C","T",":"," ","H","A","L","L","U","C","I","N","A",
    "T","E","D","\n","C","O","N","F","I","D","E","N","C","E",":"," ","0",
    ".","8","\n","R","E","A","S","O","N",":"," ","N","o","t"," ","i","n",
    " ","t","h","e"," ","s","o","u","r","c","e",".">>

\* the entities whose remote or inference call may fail
FaultyEntities == {5}
ConnectionError == "Connection error."
EmptyResponseError == "API returned empty response"
InferenceError == "CUDA out of memory"

\* "\n\n---\n\n".join(source_texts[:3])
PromptContext(source_texts) ==
  Join(Take(source_texts, MaxSources), SourceSeparator)

\* the model's answer at temperature 0: it depends on the prompt alone
DescriptionInContext(description, context) ==
  Contains(Lower(context), Lower(Strip(description, Whitespace \cup {"."})))

\* what the call of GroqEntityValidator.validate_entity can end in
GroqOutcomes(entity_row) ==
  LET context == PromptContext(get_source_texts(entity_row))
      answer == IF DescriptionInContext(entity_row.description, context)
                  THEN ReplySupported ELSE ReplyUnsupported
  IN {RemoteContent(answer)}
     \cup (IF entity_row.id \in FaultyEntities
             THEN {RemoteError(ConnectionError)}
             ELSE {})

\* what the call of HybridValidator._groq_spot_check can end in
SpotCheckOutcomes(entity_row) ==
  LET context == PromptContext(get_source_texts(entity_row))
      answer == IF DescriptionInContext(entity_row.description, context)
                  THEN ReplyAccurate ELSE ReplyHallucinated
  IN {RemoteContent(answer)}
     \cup (IF entity_row.id \in FaultyEntities
             THEN {RemoteError(ConnectionError)}
             ELSE {})

\* an NLI model is a function of the pair (source_text, sentence): the one
\* of the batch runs scores by containment, a table gives each pair its own
ContainmentModel == [kind |-> "containment"]
TableModel(probs) == [kind |-> "table", probs |-> probs]

\* probs[2].item() of the NLI model nli for (source_text, sentence)
EntailmentScore(nli, source_text, sentence) ==
  IF nli.kind = "table" THEN nli.probs[<<source_text, sentence>>]
  ELSE IF Contains(Lower(source_text), Lower(sentence)) THEN Tenths(9)
  ELSE Tenths(2)

(***************************************************************************)
(* GroqEntityValidator                                                     *)
(***************************************************************************)
Digits == <<"0","1","2","3","4","5","6","7","8","9">>
IsDigit(c) == \E i \in 1..10 : Digits[i] = c
DigitVal(c) == (CHOOSE i \in 1..10 : Digits[i] = c) - 1
RECURSIVE DigitsToNat(_)
DigitsToNat(s) ==
  IF s = <<>> THEN 0
  ELSE 10 * DigitsToNat(SubSeq(s, 1, Len(s) - 1)) + DigitVal(s[Len(s)])
RECURSIVE Pow10(_)
Pow10(n) == IF n = 0 THEN 1 ELSE 10 * Pow10(n - 1)

\* float(token) for a plain decimal (sign, digits, one point); ok is FALSE
\* where float raises ValueError.  The value is in units of 1/ConfScale.
ParseFloat(token) ==
  LET signed == token # <<>> /\ Head(token) \in {"+", "-"}
      body == IF signed THEN Tail(token) ELSE token
      parts == SplitOn(body, ".")
      whole == parts[1]
      frac == IF Len(parts) = 2 THEN parts[2] ELSE <<>>
      wellFormed ==
        /\ Len(parts) <= 2
        /\ Len(whole) + Len(frac) > 0
        /\ \A i \in 1..Len(whole) : IsDigit(whole[i])
        /\ \A i \in 1..Len(frac) : IsDigit(frac[i])
      magnitude ==
        ((DigitsToNat(whole) * Pow10(Len(frac)) + DigitsToNat(frac))
           * ConfScale) \div Pow10(Len(frac))
  IN IF wellFormed
       THEN [ok |-> TRUE,
             val |-> IF signed /\ Head(token) = "-" THEN 0 - magnitude
                     ELSE magnitude]
       ELSE [ok |-> FALSE, val |-> 0]

\* line.split(':', 1)[1]
AfterFirstColon(line) ==
  LET i == CHOOSE k \in 1..Len(line) :
             line[k] = ":" /\ \A j \in 1..(k - 1) : line[j] # ":"
  IN SubSeq(line, i + 1, Len(line))

\* the body of "for line in lines" of _parse_api_response
ParseLine(st, rawline) ==
  LET line == Strip(rawline, Whitespace)
  IN IF StartsWith(line, LabelSupported)
       THEN [st EXCEPT !.supported = Contains(Upper(line), WordYes)]
     ELSE IF StartsWith(line, LabelConfidence)
       THEN LET conf_str == Strip(SplitOn(line, ":")[2], Whitespace)
                words == SplitWs(conf_str)
                parsed == IF words = <<>> THEN [ok |-> FALSE, val |-> 0]
                          ELSE ParseFloat(words[1])
            IN [st EXCEPT !.raw_confidence =
                            IF parsed.ok THEN parsed.val ELSE 0]
     ELSE IF StartsWith(line, LabelIssues)
       THEN LET issues_text == Strip(AfterFirstColon(line), Whitespace)
            IN IF Lower(issues_text) \notin {WordNone, WordNoneDot, <<>>}
                 THEN [st EXCEPT !.issues = <<Issue("", issues_text, 0)>>]
                 ELSE st
     ELSE st

RECURSIVE ParseLines(_, _)
ParseLines(st, lines) ==
  IF lines = <<>> THEN st
  ELSE ParseLines(ParseLine(st, Head(lines)), Tail(lines))

\* variant of the reconciliation whose comparisons admit 0.5: >=, <=
ReconcileConfidenceInclusive(supported, raw_confidence) ==
  IF supported
    THEN IF 2 * raw_confidence >= ConfScale THEN Tenths(1) ELSE raw_confidence
    ELSE IF 2 * raw_confidence <= ConfScale THEN Tenths(8) ELSE raw_confidence

\* variant that reports the raw confidence as it is
ReconcileConfidenceRaw(supported, raw_confidence) == raw_confidence

\* the confidence _parse_api_response reports for (supported, raw_confidence)
ReconcileConfidence(supported, raw_confidence) ==
  IF supported
    THEN IF 2 * raw_confidence > ConfScale THEN Tenths(1) ELSE raw_confidence
    ELSE IF 2 * raw_confidence < ConfScale THEN Tenths(8) ELSE raw_confidence

\* variant that decides is_hallucinated by the confidence: confidence > 0.5
_parse_api_response_by_confidence(response) ==
  LET lines == SplitOn(Strip(response, Whitespace), "\n")
      st == ParseLines([supported |-> TRUE, raw_confidence |-> 0,
                        issues |-> <<>>], lines)
      confidence == ReconcileConfidence(st.supported, st.raw_confidence)
  IN [confidence |-> confidence,
      is_hallucinated |-> 2 * confidence > ConfScale,
      issues |-> st.issues]

_parse_api_response(response) ==
  LET lines == SplitOn(Strip(response, Whitespace), "\n")
      st == ParseLines([supported |-> TRUE, raw_confidence |-> 0,
                        issues |-> <<>>], lines)
  IN [confidence |-> ReconcileConfidence(st.supported, st.raw_confidence),
      is_hallucinated |-> ~st.supported,
      issues |-> st.issues]

\* GroqEntityValidator.validate_entity; remote is what the one call ends in
GroqValidateEntity(entity_row, remote) ==
  LET source_texts == get_source_texts(entity_row)
      failed == remote.kind # "content"
      error == IF remote.kind = "error" THEN remote.err
               ELSE EmptyResponseError
      parsed == _parse_api_response(Strip(remote.content, Whitespace))
  IN IF source_texts = <<>> THEN Returned(NoSourceResult(entity_row, "groq"))
     ELSE Returned(ValidationResult(
            entity_row.id, entity_row.title, entity_row.type,
            entity_row.description,
            IF failed THEN 0 ELSE parsed.confidence,
            IF failed THEN FALSE ELSE parsed.is_hallucinated,
            "groq",
            IF failed THEN <<Issue("API error: ", <<error>>, 0)>>
            ELSE parsed.issues,
            1))

(***************************************************************************)
(* GPUNLIValidator                                                         *)
(***************************************************************************)
\* the elements of seq that are not the empty string, in order
RECURSIVE NonEmpty(_)
NonEmpty(seq) ==
  IF seq = <<>> THEN <<>>
  ELSE (IF Head(seq) # <<>> THEN <<Head(seq)>> ELSE <<>>)
       \o NonEmpty(Tail(seq))

\* [s.strip() for s in description.split('.') if s.strip()]
Sentences(description) ==
  LET pieces == SplitOn(description, ".")
  IN NonEmpty([i \in 1..Len(pieces) |-> Strip(pieces[i], Whitespace)])

\* the sentences the loop does not skip
RECURSIVE CheckedSentences(_)
CheckedSentences(sentences) ==
  IF sentences = <<>> THEN <<>>
  ELSE (IF Len(Head(sentences)) < MinSentenceLen THEN <<>>
        ELSE <<Head(sentences)>>)
       \o CheckedSentences(Tail(sentences))

\* max_entailment after the loop over source_texts[:3]
RECURSIVE MaxEntailment(_, _, _, _)
MaxEntailment(nli, max_entailment, sources, sentence) ==
  IF sources = <<>> THEN max_entailment
  ELSE MaxEntailment(
         nli,
         Max(max_entailment,
             EntailmentScore(nli, Take(Head(sources), SourceCut), sentence)),
         Tail(sources), sentence)

\* variant of the scores that reads every source text, not the first three
ContradictionScoresAllSources(nli, sentences, source_texts) ==
  [i \in 1..Len(sentences) |->
     ConfScale - MaxEntailment(nli, 0, source_texts, sentences[i])]

\* contradiction_scores
ContradictionScores(nli, sentences, source_texts) ==
  [i \in 1..Len(sentences) |->
     ConfScale - MaxEntailment(nli, 0, Take(source_texts, MaxSources),
                               sentences[i])]

\* "{:.2f}" of 1 - confidence, in hundredths
AvgEntailmentHundredths(confidence) ==
  (2 * 100 * (ConfScale - confidence) + ConfScale) \div (2 * ConfScale)

\* GPUNLIValidator.validate_entity with the model nli; inference_fails: the
\* model call raises
GPUValidateEntity(entity_row, inference_fails, nli) ==
  LET source_texts == get_source_texts(entity_row)
      sentences == CheckedSentences(Sentences(entity_row.description))
      contradiction_scores ==
        ContradictionScores(nli, sentences, source_texts)
      confidence == IF contradiction_scores # <<>>
                      THEN SumSeq(contradiction_scores)
                             \div Len(contradiction_scores)
                      ELSE 0
      is_hallucinated == 2 * confidence > ConfScale
      issues ==
        IF is_hallucinated
          THEN <<Issue("Description not well-supported by source texts (avg entailment: )",
                       <<>>, AvgEntailmentHundredths(confidence))>>
          ELSE <<>>
      calls == Len(sentences) * Len(Take(source_texts, MaxSources))
  IN IF source_texts = <<>>
       THEN Returned(NoSourceResult(entity_row, "gpu_nli"))
     ELSE IF inference_fails /\ calls > 0 THEN Raised(InferenceError)
     ELSE Returned(ValidationResult(
            entity_row.id, entity_row.title, entity_row.type,
            entity_row.description, confidence, is_hallucinated, "gpu_nli",
            issues, calls))

\* whether the inference call may raise while entity_row is scored
GPUOutcomes(entity_row) ==
  {FALSE} \cup (IF entity_row.id \in FaultyEntities THEN {TRUE} ELSE {})

(***************************************************************************)
(* HybridValidator                                                         *)
(***************************************************************************)
\* the words of description_lower.split() that pass the filter, stripped
RECURSIVE KeyTerms(_)
KeyTerms(words) ==
  IF words = <<>> THEN <<>>
  ELSE (IF Len(Head(words)) > MinTermLen /\ IsAlpha(Head(words))
          THEN <<Strip(Head(words), StripChars)>> ELSE <<>>)
       \o KeyTerms(Tail(words))

\* sum(1 for term in key_terms if term in combined_source)
RECURSIVE FoundTerms(_, _)
FoundTerms(key_terms, combined_source) ==
  IF key_terms = <<>> THEN 0
  ELSE (IF Contains(combined_source, Head(key_terms)) THEN 1 ELSE 0)
       + FoundTerms(Tail(key_terms), combined_source)

\* variant that takes a description without key terms as covered in full
CoverageFullWhenNoTerms(key_terms, combined_source) ==
  IF key_terms # <<>>
    THEN [num |-> FoundTerms(key_terms, combined_source),
          den |-> Len(key_terms)]
    ELSE [num |-> 1, den |-> 1]

\* coverage as the fraction num / den; 0.0 when there is no key term
Coverage(key_terms, combined_source) ==
  IF key_terms # <<>>
    THEN [num |-> FoundTerms(key_terms, combined_source),
          den |-> Len(key_terms)]
    ELSE [num |-> 0, den |-> 1]
\* variants of the two comparisons that admit equality: >=, <=
CoverageAtLeast(coverage, tenths) == 10 * coverage.num >= tenths * coverage.den
CoverageAtMost(coverage, tenths) == 10 * coverage.num <= tenths * coverage.den
\* coverage > tenths / 10, coverage < tenths / 10
CoverageAbove(coverage, tenths) == 10 * coverage.num > tenths * coverage.den
CoverageBelow(coverage, tenths) == 10 * coverage.num < tenths * coverage.den
\* "{:.1%}" of coverage, in thousandths
CoveragePermille(coverage) ==
  (2 * 1000 * coverage.num + coverage.den) \div (2 * coverage.den)

\* the remote call of _groq_spot_check and what is made of its answer
_groq_spot_check(name, entity_type, description, remote) ==
  LET answer == Strip(remote.content, Whitespace)
      is_hallucinated == Contains(Upper(answer), WordHallucinated)
      lines == SplitOn(answer, "\n")
      reasons == [i \in 1..Len(lines) |->
                    IF StartsWith(lines[i], LabelReason)
                      THEN Strip(AfterFirstColon(lines[i]), Whitespace)
                      ELSE <<>>]
      issues == LET kept == {i \in 1..Len(lines) :
                               StartsWith(lines[i], LabelReason)}
                    RECURSIVE Pick(_)
                    Pick(i) ==
                      IF i > Len(lines) THEN <<>>
                      ELSE (IF i \in kept
                              THEN <<Issue("", reasons[i], 0)>> ELSE <<>>)
                           \o Pick(i + 1)
                IN Pick(1)
  IN IF remote.kind = "content"
       THEN ValidationResult(
              EmptyId, name, entity_type, description,
              IF is_hallucinated THEN Tenths(7) ELSE Tenths(3),
              is_hallucinated, "hybrid_groq", issues, 0)
       ELSE ValidationResult(
              EmptyId, name, entity_type, description, Tenths(5), FALSE,
              "hybrid_groq",
              <<Issue("API error: ",
                      <<IF remote.kind = "error" THEN remote.err
                        ELSE EmptyResponseError>>, 0)>>,
              0)

\* HybridValidator.validate_entity; remote is what the spot check's call
\* ends in when it is made
HybridValidateEntity(entity_row, groq_available, remote) ==
  LET entity_name == entity_row.title
      description == entity_row.description
      source_texts == get_source_texts(entity_row)
      combined_source == Lower(Join(source_texts, <<" ">>))
      key_terms == KeyTerms(SplitWs(Lower(description)))
      coverage == Coverage(key_terms, combined_source)
      name_found == Contains(combined_source, Lower(entity_name))
      groq_result == _groq_spot_check(entity_name, entity_row.type,
                                      description, remote)
  IN IF source_texts = <<>>
       THEN Returned(NoSourceResult(entity_row, "hybrid"))
     ELSE IF CoverageAbove(coverage, 7) /\ name_found
       THEN Returned(ValidationResult(
              entity_row.id, entity_name, entity_row.type, description,
              Tenths(1), FALSE, "hybrid_text", <<>>, 0))
     ELSE IF CoverageBelow(coverage, 3) \/ ~name_found
       THEN Returned(ValidationResult(
              entity_row.id, entity_name, entity_row.type, description,
              Tenths(8), TRUE, "hybrid_text",
              (IF ~name_found
                 THEN <<Issue("Entity name '' not found in source texts",
                              entity_name, 0)>>
                 ELSE <<>>)
              \o (IF CoverageBelow(coverage, 3)
                    THEN <<Issue("Low term coverage ()", <<>>,
                                 CoveragePermille(coverage))>>
                    ELSE <<>>),
              0))
     ELSE IF groq_available
       THEN Returned([groq_result EXCEPT !.validation_time = 1,
                                         !.method = "hybrid_groq"])
     ELSE Returned(ValidationResult(
            entity_row.id, entity_name, entity_row.type, description,
            Tenths(5), CoverageBelow(coverage, 5), "hybrid_text",
            <<Issue("Uncertain (coverage: )", <<>>,
                    CoveragePermille(coverage))>>,
            0))

\* variant that goes to the spot check without asking for the client
HybridEscalatesWithoutClient(entity_row, groq_available) ==
  LET source_texts == get_source_texts(entity_row)
      combined_source == Lower(Join(source_texts, <<" ">>))
      coverage == Coverage(KeyTerms(SplitWs(Lower(entity_row.description))),
                           combined_source)
      name_found == Contains(combined_source, Lower(entity_row.title))
  IN /\ source_texts # <<>>
     /\ ~(CoverageAbove(coverage, 7) /\ name_found)
     /\ ~(CoverageBelow(coverage, 3) \/ ~name_found)

\* whether HybridValidator.validate_entity reaches the spot check
HybridEscalates(entity_row, groq_available) ==
  LET source_texts == get_source_texts(entity_row)
      combined_source == Lower(Join(source_texts, <<" ">>))
      coverage == Coverage(KeyTerms(SplitWs(Lower(entity_row.description))),
                           combined_source)
      name_found == Contains(combined_source, Lower(entity_row.title))
  IN /\ source_texts # <<>>
     /\ ~(CoverageAbove(coverage, 7) /\ name_found)
     /\ ~(CoverageBelow(coverage, 3) \/ ~name_found)
     /\ groq_available

(***************************************************************************)
(* EntityValidator.generate_report: the rows of the CSV file and the       *)
(* numbers it prints, each as the integer its format shows.                *)
(***************************************************************************)
\* hallucinated[:10]
TopCount == 10

\* variant of the formats that cuts the digits off instead of rounding
TruncDiv(num, den) == num \div den

\* num / den to the nearest integer: what "{:.1f}", "{:.2f}", "{:.3f}" show
\* of a value scaled by 10, 100, 1000
RoundDiv(num, den) == (2 * num + den) \div (2 * den)

\* '; '.join(x) if x else '': the issues with the separator between them
IssuesCell(issues) ==
  IF issues = <<>> THEN <<>>
  ELSE Join([i \in 1..Len(issues) |-> <<issues[i]>>], <<"; ">>)

\* [r for r in results if r.is_hallucinated]
RECURSIVE Hallucinated(_)
Hallucinated(rs) ==
  IF rs = <<>> THEN <<>>
  ELSE (IF Head(rs).is_hallucinated THEN <<Head(rs)>> ELSE <<>>)
       \o Hallucinated(Tail(rs))

\* variant of the insertion that puts r before the results of its confidence
RECURSIVE InsertBeforeEqual(_, _)
InsertBeforeEqual(sorted, r) ==
  IF sorted = <<>> THEN <<r>>
  ELSE IF Head(sorted).confidence > r.confidence
    THEN <<Head(sorted)>> \o InsertBeforeEqual(Tail(sorted), r)
  ELSE <<r>> \o sorted

\* list.sort(key=lambda x: x.confidence, reverse=True): stable, so results
\* of equal confidence keep their order
RECURSIVE InsertByConfidence(_, _)
InsertByConfidence(sorted, r) ==
  IF sorted = <<>> THEN <<r>>
  ELSE IF Head(sorted).confidence >= r.confidence
    THEN <<Head(sorted)>> \o InsertByConfidence(Tail(sorted), r)
  ELSE <<r>> \o sorted
RECURSIVE SortByConfidence(_)
SortByConfidence(rs) ==
  IF rs = <<>> THEN <<>>
  ELSE InsertByConfidence(SortByConfidence(SubSeq(rs, 1, Len(rs) - 1)),
                          rs[Len(rs)])

\* generate_report(results): raises on an empty list (no 'issues' column)
generate_report(rs) ==
  LET n == Len(rs)
      flagged == Len(Hallucinated(rs))
      confidences == [i \in 1..n |-> rs[i].confidence]
      times == [i \in 1..n |-> rs[i].validation_time]
  IN IF rs = <<>> THEN Raised("KeyError: 'issues'")
     ELSE Returned(
            [csv |-> [i \in 1..n |-> [rs[i] EXCEPT !.issues = IssuesCell(@)]],
             total |-> n,
             hallucinated |-> flagged,
             percent_tenths |-> RoundDiv(1000 * flagged, n),
             average_confidence_thousandths |->
               RoundDiv(1000 * SumSeq(confidences), ConfScale * n),
             total_time_tenths |-> 10 * SumSeq(times),
             average_time_hundredths |-> RoundDiv(100 * SumSeq(times), n),
             top |-> Take(SortByConfidence(Hallucinated(rs)), TopCount),
             results |-> rs])

(***************************************************************************)
(* The checkpoint file validation_results.json.  Its text is a sequence of *)
(* tokens: "[", one object per result, "]".  A process that is killed      *)
(* inside _save_results leaves a proper prefix of the text it was writing. *)
(***************************************************************************)
LBracket == [tok |-> "["]
RBracket == [tok |-> "]"]
JsonObject(d) == [tok |-> "obj", val |-> d]

\* json.dump([r.__dict__ for r in results], f, indent=2)
JsonDump(rs) ==
  <<LBracket>> \o [i \in 1..Len(rs) |-> JsonObject(rs[i])] \o <<RBracket>>

\* json.load(f), then [ValidationResult(**r) for r in cached];
\* ok is FALSE where json.load raises JSONDecodeError
JsonLoad(text) ==
  LET n == Len(text)
      wellFormed ==
        /\ n >= 2
        /\ text[1] = LBracket
        /\ text[n] = RBracket
        /\ \A i \in 2..(n - 1) : text[i].tok = "obj"
  IN IF wellFormed
       THEN [ok |-> TRUE, val |-> [i \in 1..(n - 2) |-> text[i + 1].val]]
       ELSE [ok |-> FALSE, val |-> <<>>]

\* what open(filepath, 'w') and an unfinished json.dump can leave
TornWrites(text) == {SubSeq(text, 1, k) : k \in 0..(Len(text) - 1)}

NoFile == [exists |-> FALSE, text |-> <<>>]
FileWith(text) == [exists |-> TRUE, text |-> text]

\* _save_results(results, filepath), run to its end
_save_results(rs) == FileWith(JsonDump(rs))

(***************************************************************************)
(* EntityValidator.validate_batch                                          *)
(***************************************************************************)
\* limit: Optional[int]
NoLimit == [given |-> FALSE, n |-> 0]
Limit(n) == [given |-> TRUE, n |-> n]
\* the limits validate_batch is called with
Limits == {NoLimit, Limit(0), Limit(10)}
\* variant that tests the limit for None: "if limit is not None:"
LimitAppliesWhenGiven(limit) == limit.given

\* "if limit:"
LimitApplies(limit) == limit.given /\ limit.n # 0

\* DataFrame.head(n)
DfHead(rows, n) ==
  IF n >= 0 THEN Take(rows, n)
  ELSE SubSeq(rows, 1, Max(0, Len(rows) + n))

\* variant of the mask without its negation: isin(processed_ids)
NotProcessedNoNegation(id, processed_ids) == id \in processed_ids

\* ~self.entities_df['id'].isin(processed_ids), for one row
NotProcessed(id, processed_ids) == id \notin processed_ids

\* variant that resumes after the last processed row: the rows from i on
\* that come after every row with a processed id
RECURSIVE UnprocessedAfterLast(_, _)
UnprocessedAfterLast(i, processed_ids) ==
  IF i > NumEntities THEN <<>>
  ELSE (IF \A j \in i..NumEntities : entities_df[j].id \notin processed_ids
          THEN <<entities_df[i].id>> ELSE <<>>)
       \o UnprocessedAfterLast(i + 1, processed_ids)

\* the ids of the rows of entities_df the mask keeps, in row order
RECURSIVE Unprocessed(_, _)
Unprocessed(i, processed_ids) ==
  IF i > NumEntities THEN <<>>
  ELSE (IF NotProcessed(entities_df[i].id, processed_ids)
          THEN <<entities_df[i].id>> ELSE <<>>)
       \o Unprocessed(i + 1, processed_ids)

\* variant that takes head(limit) of entities_df before the mask is applied
EntitiesToProcessLimitFirst(processed_ids, limit) ==
  IF LimitApplies(limit)
    THEN SelectSeq(Unprocessed(1, processed_ids), LAMBDA id : id <= limit.n)
    ELSE Unprocessed(1, processed_ids)

\* entities_to_process, as the ids of its rows
EntitiesToProcess(processed_ids, limit) ==
  IF LimitApplies(limit)
    THEN DfHead(Unprocessed(1, processed_ids), limit.n)
    ELSE Unprocessed(1, processed_ids)

\* variant that starts every run from an empty list
LoadedResultsIgnoresFile(resume, file) == <<>>

\* variant that loads the file whenever there is one, resume or not
LoadedResultsAlways(resume, file) ==
  IF file.exists THEN JsonLoad(file.text).val ELSE <<>>

\* results, after "Load existing results if resuming"
LoadedResults(resume, file) ==
  IF resume /\ file.exists THEN JsonLoad(file.text).val ELSE <<>>

\* {r.entity_id for r in results}
ProcessedIds(rs) == {rs[i].entity_id : i \in 1..Len(rs)}

\* variant that writes at the tenth result only: len(results) == 10
ShouldCheckpointOnceAtTen(rs) == Len(rs) = CheckpointEvery

\* "if len(results) % 10 == 0"
ShouldCheckpoint(rs) == Len(rs) % CheckpointEvery = 0

\* variant without the try/except around validate_entity
ExceptionEscapesUncaught(outcome) == outcome.raised

\* whether an exception of validate_entity leaves validate_batch:
\* "except Exception" catches whatever the scorers raise
ExceptionEscapes(outcome) == FALSE

VARIABLES
  method,              \* the validator main() built: "groq", "gpu", "hybrid"
  groq_available,      \* HybridValidator.groq_available
  results_file,        \* cache_dir / "validation_results.json"
  pc,                  \* where the process is
  resume, limit,       \* the arguments of the running validate_batch
  results,             \* its local results
  processed_ids,       \* its local processed_ids
  entities_to_process, \* its local entities_to_process (row ids)
  calls,               \* the validate_entity calls of this run, in order
  loaded,              \* how many results this run loaded from the file
  unsaved,             \* results appended since the file was last written
  saves,               \* the _save_results calls of this run that returned
  fresh,               \* this run found no checkpoint file when it started
  prev,                \* how the run before this one ended
  all_resume,          \* every run so far was given resume=True
  invocation,          \* a single call of one method: arguments and return
  process,             \* run_indexing: the "graphrag index" subprocess
  pipes,               \* process.stdout, process.stderr: lines not yet read
  queues,              \* stdout_queue, stderr_queue
  readers,             \* stdout_thread, stderr_thread: where each one is
  monitor,             \* where the thread that runs run_indexing is
  logged               \* what logging.info and logging.warning were given

\* the state of GraphRAGManager.run_indexing (pipeline_orchestrator.py)
indexing == <<process, pipes, queues, readers, monitor, logged>>

vars == <<method, groq_available, results_file, pc, resume, limit, results,
          processed_ids, entities_to_process, calls, loaded, unsaved, saves,
          fresh, prev, all_resume, invocation, indexing>>

\* what a run does not change: the validator, and the record of earlier runs
config == <<method, groq_available, prev, all_resume, invocation, indexing>>
\* the arguments and the locals a pass of the loop leaves alone
frame == <<resume, limit, processed_ids, entities_to_process, loaded, fresh>>

Methods == {"groq", "gpu", "hybrid"}
\* the two output streams of the subprocess, by the prefix of their lines
Streams == {"STDOUT", "STDERR"}
\* no subprocess yet
NotStarted == [started |-> FALSE, exited |-> FALSE, return_code |-> 0,
               written |-> [s \in Streams |-> 0]]
\* no single call has been made
NoInvocation == [fn |-> "none"]

\* what self.validate_entity(row) can do, for the validator in use
ValidateEntityOutcomes(entity_row) ==
  CASE method = "groq" ->
         {GroqValidateEntity(entity_row, o) : o \in GroqOutcomes(entity_row)}
    [] method = "gpu" ->
         {GPUValidateEntity(entity_row, o, ContainmentModel) :
            o \in GPUOutcomes(entity_row)}
    [] OTHER ->
         {HybridValidateEntity(entity_row, groq_available, o) :
            o \in SpotCheckOutcomes(entity_row)}

\* the row the loop is at
NextRow == entities_df[entities_to_process[Len(calls) + 1]]
Call(entity_row, outcome) == [id |-> entity_row.id, raised |-> outcome.raised]
NoCallRaised == \A i \in 1..Len(calls) : ~calls[i].raised

\* the run has returned, and it left no row of entities_df without a result
RunComplete ==
  /\ pc = "done"
  /\ NoCallRaised
  /\ Len(entities_to_process) = Len(Unprocessed(1, processed_ids))
\* the run was killed when it had scored exactly 23 entities, from no results
KilledAt23 ==
  /\ pc = "terminated"
  /\ loaded = 0
  /\ Len(calls) = 23
  /\ Len(results) = 23

Init ==
  /\ method \in Methods
  /\ groq_available \in (IF method = "hybrid" THEN BOOLEAN
                         ELSE {method = "groq"})
  /\ results_file = NoFile
  /\ pc = "idle"
  /\ resume = FALSE
  /\ limit = NoLimit
  /\ results = <<>>
  /\ processed_ids = {}
  /\ entities_to_process = <<>>
  /\ calls = <<>>
  /\ loaded = 0
  /\ unsaved = 0
  /\ saves = 0
  /\ fresh = TRUE
  /\ prev = [complete |-> FALSE, returned |-> <<>>, killed_at_23 |-> FALSE]
  /\ all_resume = TRUE
  /\ invocation = NoInvocation
  /\ process = NotStarted
  /\ pipes = [s \in Streams |-> <<>>]
  /\ queues = [s \in Streams |-> <<>>]
  /\ readers = [s \in Streams |-> [pc |-> "unborn", line |-> <<>>]]
  /\ monitor = "idle"
  /\ logged = <<>>

\* validate_batch(limit=lim, resume=res) up to the loop, in a new process
StartBatch(lim, res) ==
  LET mustLoad == res /\ results_file.exists
      loadFails == mustLoad /\ ~JsonLoad(results_file.text).ok
      rs == LoadedResults(res, results_file)
      ids == ProcessedIds(rs)
      todo == EntitiesToProcess(ids, lim)
  IN /\ pc \in {"idle", "done", "terminated", "raised"}
     /\ loadFails \/ Len(rs) + Len(todo) <= MaxResults
     /\ resume' = res
     /\ limit' = lim
     /\ pc' = IF loadFails THEN "raised" ELSE "loop"
     /\ results' = IF loadFails THEN <<>> ELSE rs
     /\ processed_ids' = IF loadFails THEN {} ELSE ids
     /\ entities_to_process' = IF loadFails THEN <<>> ELSE todo
     /\ calls' = <<>>
     /\ loaded' = IF loadFails THEN 0 ELSE Len(rs)
     /\ unsaved' = 0
     /\ saves' = 0
     /\ fresh' = ~results_file.exists
     /\ prev' = [complete |-> RunComplete,
                 returned |-> IF RunComplete THEN results ELSE <<>>,
                 killed_at_23 |-> KilledAt23]
     /\ all_resume' = (all_resume /\ res)
     /\ UNCHANGED <<method, groq_available, results_file, invocation,
                    indexing>>

\* one pass of the loop: validate_entity, append, the checkpoint every 10
ProcessEntity ==
  /\ pc = "loop"
  /\ Len(calls) < Len(entities_to_process)
  /\ \E outcome \in ValidateEntityOutcomes(NextRow) :
       LET rs == IF outcome.raised THEN results
                 ELSE Append(results, outcome.result)
           writes == ~outcome.raised /\ ShouldCheckpoint(rs)
       IN /\ results' = rs
          /\ calls' = Append(calls, Call(NextRow, outcome))
          /\ results_file' = IF writes THEN _save_results(rs)
                             ELSE results_file
          /\ unsaved' = IF writes THEN 0
                        ELSE IF outcome.raised THEN unsaved ELSE unsaved + 1
          /\ saves' = IF writes THEN saves + 1 ELSE saves
          /\ pc' = IF outcome.raised /\ ExceptionEscapes(outcome)
                     THEN "raised" ELSE "loop"
  /\ UNCHANGED <<config, frame>>

\* the same pass, the process killed inside its _save_results
ProcessEntityKilledInSave ==
  /\ pc = "loop"
  /\ Len(calls) < Len(entities_to_process)
  /\ \E outcome \in ValidateEntityOutcomes(NextRow) :
       /\ ~outcome.raised
       /\ ShouldCheckpoint(Append(results, outcome.result))
       /\ results' = Append(results, outcome.result)
       /\ calls' = Append(calls, Call(NextRow, outcome))
       /\ \E text \in TornWrites(JsonDump(results')) :
            results_file' = FileWith(text)
  /\ unsaved' = unsaved + 1
  /\ pc' = "terminated"
  /\ UNCHANGED <<config, frame, saves>>

\* "Final save" and the return
FinalSave ==
  /\ pc = "loop"
  /\ Len(calls) = Len(entities_to_process)
  /\ results_file' = _save_results(results)
  /\ unsaved' = 0
  /\ saves' = saves + 1
  /\ pc' = "done"
  /\ UNCHANGED <<config, frame, results, calls>>

\* the process killed inside the final _save_results
FinalSaveKilled ==
  /\ pc = "loop"
  /\ Len(calls) = Len(entities_to_process)
  /\ \E text \in TornWrites(JsonDump(results)) :
       results_file' = FileWith(text)
  /\ pc' = "terminated"
  /\ UNCHANGED <<config, frame, results, calls, unsaved, saves>>

\* the process killed between two passes of the loop
Terminate ==
  /\ pc = "loop"
  /\ pc' = "terminated"
  /\ UNCHANGED <<config, frame, results_file, results, calls, unsaved, saves>>

Next ==
  \/ \E lim \in Limits, res \in BOOLEAN : StartBatch(lim, res)
  \/ ProcessEntity
  \/ ProcessEntityKilledInSave
  \/ FinalSave
  \/ FinalSaveKilled
  \/ Terminate

Spec == Init /\ [][Next]_vars

(***************************************************************************)
(* What the properties below read off a state.                             *)
(***************************************************************************)
IsPrefix(a, b) == Len(a) <= Len(b) /\ SubSeq(b, 1, Len(a)) = a
Running == pc \in {"loop", "done", "terminated"}
FileLoads == results_file.exists /\ JsonLoad(results_file.text).ok
FileResults == JsonLoad(results_file.text).val
\* the ids of the results this run loaded from the checkpoint
LoadedIds == {results[k].entity_id : k \in 1..loaded}
\* the ids the scorer was called with, in order
CalledIds == [i \in 1..Len(calls) |-> calls[i].id]
\* the elements of a set of numbers, ascending: ids in corpus order
RECURSIVE Ascending(_)
Ascending(S) ==
  IF S = {} THEN <<>>
  ELSE LET m == CHOOSE x \in S : \A y \in S : x <= y
       IN <<m>> \o Ascending(S \ {m})
\* the corpus entities that are not in the loaded checkpoint, in corpus order
NotInCheckpoint == Ascending({i \in 1..NumEntities : i \notin LoadedIds})
\* the ids of the calls that returned a result, in order
RECURSIVE ReturnedIds(_)
ReturnedIds(cs) ==
  IF cs = <<>> THEN <<>>
  ELSE (IF Head(cs).raised THEN <<>> ELSE <<Head(cs).id>>)
       \o ReturnedIds(Tail(cs))
\* the results this run appended
NewResults == SubSeq(results, loaded + 1, Len(results))
\* the cadence points 10, 20, ... among the lengths results went through
CadencePoints == {k \in (loaded + 1)..Len(results) : k % 10 = 0}

(***************************************************************************)
(* C1  Resume idempotence.                                                 *)
(***************************************************************************)
\* C1: when a run that left no entity without a result is followed by a run
\* with resume=True, the second run calls the scorer for no entity, and it
\* returns and persists the result list the first run returned.
C1_ResumeIdempotence ==
  (Running /\ resume /\ prev.complete) =>
     /\ calls = <<>>
     /\ results = prev.returned
     /\ pc = "done" => results_file = FileWith(JsonDump(prev.returned))

(***************************************************************************)
(* C2  Checkpoint durability.                                              *)
(***************************************************************************)
\* C2: a run killed after exactly 23 processed entities leaves a checkpoint
\* of exactly 20 results, and the run with resume=True that follows works on
\* the entities from the 21st on (the remaining 3 and all after them).
C2_CheckpointDurability ==
  /\ KilledAt23 => FileLoads /\ Len(FileResults) = 20
  /\ (Running /\ resume /\ prev.killed_at_23) =>
       LET rest == [i \in 1..(NumEntities - 20) |-> 20 + i]
       IN entities_to_process =
            IF limit.given /\ limit.n > 0 THEN Take(rest, limit.n) ELSE rest

(***************************************************************************)
(* C3  Partial failure isolation.                                          *)
(***************************************************************************)
\* C3: a scorer error for an entity never leaves validate_batch (the batch
\* raises only while it loads the checkpoint, before any entity is scored);
\* the run goes on to the next entity, and when it returns it has called the
\* scorer for its whole work queue and holds one new result for every
\* entity whose call did not raise, in order.
C3_PartialFailureIsolation ==
  /\ pc = "raised" => calls = <<>>
  /\ pc = "done" =>
       /\ CalledIds = entities_to_process
       /\ Len(NewResults) = Len(ReturnedIds(calls))
       /\ \A k \in 1..Len(NewResults) :
            LET row == entities_df[ReturnedIds(calls)[k]]
            IN /\ NewResults[k].entity_name = row.title
               /\ NewResults[k].entity_type = row.type
               /\ NewResults[k].description = row.description

\* entity #5 of a batch of 10 raised, and the batch returned 9 results
C3_Witness ==
  /\ pc = "done"
  /\ loaded = 0
  /\ Len(calls) = 10
  /\ \A i \in 1..10 : calls[i].raised <=> i = 5
  /\ Len(results) = 9

(***************************************************************************)
(* C4  Resume exclusion.                                                   *)
(***************************************************************************)
\* C4: in a run with resume=True no entity whose id is in the loaded
\* checkpoint is passed to the scorer or put on the work queue, and without
\* an applied limit the work queue is exactly the corpus entities whose id
\* is not in the loaded checkpoint, in corpus order.
C4_ResumeExclusion ==
  (Running /\ resume) =>
     /\ \A i \in 1..Len(calls) : calls[i].id \notin LoadedIds
     /\ \A i \in 1..Len(entities_to_process) :
          entities_to_process[i] \notin LoadedIds
     /\ IsPrefix(entities_to_process, NotInCheckpoint)
     /\ ~(limit.given /\ limit.n > 0) => entities_to_process = NotInCheckpoint

\* a resumed run that loaded results and has called the scorer
C4_Witness ==
  /\ Running /\ resume
  /\ loaded > 0
  /\ calls # <<>>
  /\ Len(entities_to_process) < NumEntities

(***************************************************************************)
(* C5  Limit semantics.                                                    *)
(***************************************************************************)
\* C5, for any limit: for any limit N given to validate_batch the scorer is
\* called for at most N entities, the first N not in the checkpoint.
C5_LimitSemantics ==
  (Running /\ limit.given) =>
     /\ Len(calls) <= limit.n
     /\ IsPrefix(CalledIds, Take(NotInCheckpoint, limit.n))

\* C5, for positive limits: for any positive limit N the scorer is called for at most
\* N entities, and these are the first N, in corpus order, of the entities
\* not in the checkpoint (all N of them, or all that are left, once the run
\* returns); entities already in the checkpoint do not count against N.
C5_LimitSemanticsPositive ==
  (Running /\ limit.given /\ limit.n > 0) =>
     /\ Len(calls) <= limit.n
     /\ IsPrefix(CalledIds, Take(NotInCheckpoint, limit.n))
     /\ pc = "done" => CalledIds = Take(NotInCheckpoint, limit.n)

\* a resumed run with limit 10 scored 10 entities beyond a loaded checkpoint
C5_Witness ==
  /\ pc = "done" /\ resume
  /\ limit = Limit(10)
  /\ loaded > 0
  /\ Len(calls) = 10
  /\ calls[1].id > 10

(***************************************************************************)
(* C6  Checkpoint cadence.                                                 *)
(***************************************************************************)
\* C6: while a run is in its loop fewer than 10 appended results are
\* unwritten, the file has been written once for each multiple of 10 the
\* length of results went through, each write put the whole of results in
\* the file, and the return is preceded by one more write whatever happened
\* in the loop (no entity processed, the last entities failed).
C6_CheckpointCadence ==
  /\ pc \in {"loop", "done"} =>
       /\ unsaved < 10
       /\ saves > 0 =>
            results_file =
              FileWith(JsonDump(SubSeq(results, 1, Len(results) - unsaved)))
  /\ pc = "loop" => saves = Cardinality(CadencePoints)
  /\ pc = "done" => saves = Cardinality(CadencePoints) + 1 /\ unsaved = 0

\* a run with a failed call wrote at 10, at 20 and once more at its end
C6_Witness ==
  /\ pc = "done"
  /\ ~NoCallRaised
  /\ saves = 3
  /\ Len(results) % 10 # 0

(***************************************************************************)
(* C7  Cancellation safety.                                                *)
(***************************************************************************)
\* C7: wherever the process is killed, also inside a write of the
\* checkpoint, the file it leaves is one a run with resume=True can load: a
\* complete list of complete results (or no file is left, and the next run
\* starts from nothing).
C7_CancellationSafety ==
  pc = "terminated" => (~results_file.exists \/ FileLoads)

(***************************************************************************)
(* C8  Append-only checkpoint.                                             *)
(***************************************************************************)
\* C8: in a run started with resume=True, or started when no checkpoint file
\* was present, every write of the checkpoint that completes extends what
\* the file held: the results it held stay first, unchanged and in order.
C8_AppendOnlyCheckpoint ==
  [][(/\ pc = "loop"
      /\ resume \/ fresh
      /\ results_file' # results_file
      /\ pc' # "terminated")
     => /\ JsonLoad(results_file'.text).ok
        /\ IsPrefix(IF results_file.exists THEN FileResults ELSE <<>>,
                    JsonLoad(results_file'.text).val)]_vars

\* a resumed run has written results after the ones it loaded
C8_Witness ==
  /\ Running /\ resume
  /\ loaded > 0
  /\ saves > 0
  /\ FileLoads
  /\ Len(FileResults) > loaded

(***************************************************************************)
(* C9  One result per entity.                                              *)
(***************************************************************************)
\* C9: after runs that were all given resume=True, no two results of the
\* checkpoint carry the same entity id.
C9_OneResultPerEntity ==
  (all_resume /\ FileLoads) =>
     \A i, j \in 1..Len(FileResults) :
        i # j => FileResults[i].entity_id # FileResults[j].entity_id

(***************************************************************************)
(* C10  Identity fields are copied from the input.                         *)
(***************************************************************************)
\* C10: every result validate_entity returned in this run has the
\* entity_id, entity_name, entity_type and description of the row it was
\* computed for.
C10_IdentityFieldsCopied ==
  Running =>
    \A k \in 1..Len(NewResults) :
       k <= Len(ReturnedIds(calls)) =>
         LET row == entities_df[ReturnedIds(calls)[k]]
         IN /\ NewResults[k].entity_id = row.id
            /\ NewResults[k].entity_name = row.title
            /\ NewResults[k].entity_type = row.type
            /\ NewResults[k].description = row.description

\* the ids of the calls of this run that raised
RaisedIds == {calls[i].id : i \in {k \in 1..Len(calls) : calls[k].raised}}

(***************************************************************************)
(* C25  Failed entities are retried, never marked processed.               *)
(***************************************************************************)
\* C25: when a run returns, no entity whose validate_entity raised in it has
\* a result in the checkpoint the run wrote; the run with resume=True that
\* follows puts every such entity on its work queue, if its limit reaches
\* the entity; and a run that returns has called the scorer for its whole
\* work queue.
C25_FailedEntitiesRetried ==
  [][/\ (pc = "loop" /\ pc' = "done") =>
          /\ results_file' = FileWith(JsonDump(results'))
          /\ \A id \in RaisedIds' : id \notin ProcessedIds(results')
          /\ CalledIds' = entities_to_process'
     /\ (pc = "done" /\ pc' = "loop" /\ resume') =>
          \A id \in RaisedIds :
             (LimitApplies(limit') =>
                Cardinality({j \in 1..id : j \notin processed_ids'})
                  <= limit'.n)
             => \E k \in 1..Len(entities_to_process') :
                   entities_to_process'[k] = id]_vars

\* a resumed run of the NLI validator loaded a checkpoint with entity 6 and
\* without entity 5, whose call had raised, and has scored entity 5
C25_Witness ==
  /\ method = "gpu"
  /\ Running /\ resume
  /\ 6 \in LoadedIds
  /\ 5 \notin LoadedIds
  /\ \E i \in 1..Len(calls) : calls[i].id = 5 /\ ~calls[i].raised

(***************************************************************************)
(* C26  A run without resume discards the previous checkpoint.             *)
(***************************************************************************)
\* C26: a run given resume=False loads nothing, also when a checkpoint file
\* is there, and once it has returned the file holds exactly the results of
\* this run: one for each call of this run that returned, and no other.
C26_NoResumeDiscardsCheckpoint ==
  (Running /\ ~resume) =>
     /\ loaded = 0
     /\ Len(results) = Len(ReturnedIds(calls))
     /\ pc = "done" =>
          /\ FileLoads
          /\ FileResults = results
          /\ Len(FileResults) = Len(ReturnedIds(calls))

\* a run without resume and with limit 10 returned after a complete run had
\* left its checkpoint: the file holds the fewer results of this run
C26_Witness ==
  /\ pc = "done"
  /\ ~resume /\ ~fresh
  /\ prev.complete
  /\ limit = Limit(10)
  /\ Len(prev.returned) > Len(results)
  /\ FileResults = results

(***************************************************************************)
(* C27  A limit of 0 is no limit.                                          *)
(***************************************************************************)
\* C27: validate_batch(limit=0) works on every entity not in the loaded
\* checkpoint, in corpus order, as validate_batch(limit=None) does: that is
\* the work queue of a run with either limit, and what it has called the
\* scorer for when it returns.
C27_LimitZeroIsNoLimit ==
  (Running /\ limit \in {Limit(0), NoLimit}) =>
     /\ entities_to_process = NotInCheckpoint
     /\ pc = "done" => CalledIds = NotInCheckpoint

\* a run with limit=0 has called the scorer for every entity of the corpus
C27_Witness ==
  /\ pc = "done"
  /\ limit = Limit(0)
  /\ loaded = 0
  /\ Len(calls) = NumEntities
  /\ NumEntities > 10

(***************************************************************************)
(* Single calls of the validators' methods, on arguments that go beyond    *)
(* the rows of entities.parquet above: one call is made on a validator of  *)
(* the class given by method, and invocation records it.                   *)
(***************************************************************************)
\* the number of words of the descriptions built from whole words
MaxTerms == 10

\* 'makes': a word of TextT1
WordFound == <<"m","a","k","e","s">>
\* 'quux': a word of no text unit
WordAbsent == <<"q","u","u","x">>
\* a description of n words, each a key term, the first k found in TextT1
RECURSIVE WordsDescription(_, _)
WordsDescription(k, n) ==
  IF n = 0 THEN <<>>
  ELSE (IF k > 0 THEN WordFound ELSE WordAbsent)
       \o (IF n > 1 THEN <<" ">> ELSE <<>>)
       \o WordsDescription(Max(k - 1, 0), n - 1)

\* 'maps, boats. acme2000': words that carry punctuation or digits
DescPunctuated ==
  <<"m","a","p","s",","," ","b","o","a","t","s","."," ","a","c","m","e",
    "2","0","0","0">>

ProbeDescriptions ==
  {<<>>, DescSupported, DescLowCoverage, DescUncertain, DescNoTerms,
   DescPunctuated}
  \cup {WordsDescription(k, MaxTerms) : k \in 0..MaxTerms}

\* json.dumps(ids): how a list of ids is stored in a str cell
JsonDumpsIds(ids) ==
  <<"[">>
  \o Join([i \in 1..Len(ids) |-> <<"\"">> \o ids[i] \o <<"\"">>],
          <<",", " ">>)
  \o <<"]">>

\* cells that resolve to no text, and cells that resolve to some
NoSourceCells ==
  {ListCell(<<>>), ListCell(<<IdMissing>>), StrCell(JsonDumpsIds(<<>>)),
   StrCell(JsonDumpsIds(<<IdMissing>>))}
SourceCells == {ListCell(<<IdT1>>), StrCell(IdsAsStr)}

ProbeRows ==
  {[id |-> 1, title |-> t, type |-> "ORGANIZATION", description |-> d,
    text_unit_ids |-> c] :
     t \in {TitleAcme, TitleZeta}, d \in ProbeDescriptions,
     c \in NoSourceCells \cup SourceCells}

\* what the model can put after 'CONFIDENCE:': the text and, where float()
\* accepts it, its value in units of 1/ConfScale
ConfidenceTokens ==
  {[text |-> <<"0",".","0">>, ok |-> TRUE, val |-> 0],
   [text |-> <<"0",".","3">>, ok |-> TRUE, val |-> 3 * (ConfScale \div 10)],
   [text |-> <<"0",".","5">>, ok |-> TRUE, val |-> 5 * (ConfScale \div 10)],
   [text |-> <<"0",".","9">>, ok |-> TRUE, val |-> 9 * (ConfScale \div 10)],
   [text |-> <<"0",".","2"," ","(","l","o","w",")">>, ok |-> TRUE, val |-> 2 * (ConfScale \div 10)],
   [text |-> <<"1",".","5">>, ok |-> TRUE, val |-> 15 * (ConfScale \div 10)],
   [text |-> <<"-","0",".","2">>, ok |-> TRUE, val |-> 0 - 2 * (ConfScale \div 10)],
   [text |-> <<"h","i","g","h">>, ok |-> FALSE, val |-> 0]}
\* what the model can put after 'SUPPORTED:'
SupportedWords ==
  {[text |-> <<"Y","E","S">>, supported |-> TRUE],
   [text |-> <<"N","O">>, supported |-> FALSE],
   [text |-> <<"Y","e","s">>, supported |-> TRUE],
   [text |-> <<"[","N","O","]">>, supported |-> FALSE]}
\* what the model can put after 'ISSUES:'
IssuesTexts == {<<"N","o","n","e">>, <<"C","l","a","i","m","s"," ","n","o","t"," ","i","n"," ","s","o","u","r","c","e","s">>}

\* a reply in the format the prompt asks for
GroqReplyText(supported, confidence, issues) ==
  LabelSupported \o <<" ">> \o supported \o <<"\n">>
  \o LabelConfidence \o <<" ">> \o confidence \o <<"\n">>
  \o LabelIssues \o <<" ">> \o issues
GroqReplies ==
  {[supported |-> w.supported, token |-> t,
    text |-> GroqReplyText(w.text, t.text, i)] :
     w \in SupportedWords, t \in ConfidenceTokens, i \in IssuesTexts}

\* what the remote call of GroqEntityValidator.validate_entity can end in
GroqProbeOutcomes ==
  {RemoteError(ConnectionError), RemoteNone, RemoteContent(ReplyMalformed)}
  \cup {RemoteContent(r.text) : r \in GroqReplies}
\* what the remote call of _groq_spot_check can end in
SpotProbeOutcomes ==
  {RemoteError(ConnectionError), RemoteNone, RemoteContent(ReplyAccurate),
   RemoteContent(ReplyHallucinated)}

\* what the validator's surroundings can do during one validate_entity
ProbeEnvs ==
  CASE method = "groq" -> GroqProbeOutcomes
    [] method = "gpu" ->
         {[kind |-> "inference", fails |-> f, nli |-> ContainmentModel] :
            f \in BOOLEAN}
    [] OTHER -> SpotProbeOutcomes

\* self.validate_entity(entity_row) of the validator in use
ValidateEntityIn(entity_row, env) ==
  CASE method = "groq" -> GroqValidateEntity(entity_row, env)
    [] method = "gpu" -> GPUValidateEntity(entity_row, env.fails, env.nli)
    [] OTHER -> HybridValidateEntity(entity_row, groq_available, env)

\* how often one validate_entity reaches client.chat.completions.create
RemoteRequests(entity_row) ==
  CASE method = "groq" ->
         IF get_source_texts(entity_row) = <<>> THEN 0 ELSE 1
    [] method = "gpu" -> 0
    [] OTHER -> IF HybridEscalates(entity_row, groq_available) THEN 1 ELSE 0

\* the variables of validate_batch, which a single call leaves alone
batch == <<method, groq_available, results_file, pc, resume, limit, results,
           processed_ids, entities_to_process, calls, loaded, unsaved, saves,
           fresh, prev, all_resume>>

\* one call of validate_entity
ValidateEntity ==
  /\ invocation = NoInvocation
  /\ \E entity_row \in ProbeRows, env \in ProbeEnvs :
       invocation' = [fn |-> "validate_entity", entity_row |-> entity_row,
                      env |-> env,
                      requests |-> RemoteRequests(entity_row),
                      ret |-> ValidateEntityIn(entity_row, env)]
  /\ UNCHANGED <<batch, indexing>>

\* one call of GroqEntityValidator._parse_api_response
ParseApiResponse ==
  /\ invocation = NoInvocation
  /\ method = "groq"
  /\ \E r \in GroqReplies :
       invocation' = [fn |-> "_parse_api_response", reply |-> r,
                      ret |-> _parse_api_response(r.text)]
  /\ UNCHANGED <<batch, indexing>>

\* the longest result list generate_report is called with
MaxReport == 3
\* the longest identifier list get_source_texts is called with
MaxIds == 3

\* the sequences over S of length at most n
SeqsUpTo(S, n) == UNION {[1..k -> S] : k \in 0..n}

\* (confidence, is_hallucinated) of the results handed to generate_report
ReportEntries ==
  {[confidence |-> c * (ConfScale \div 10), is_hallucinated |-> h] :
     c \in {2, 8, 9}, h \in BOOLEAN}
\* a result list with these entries: the k-th result is that of entity k
ReportResults(entries) ==
  [k \in 1..Len(entries) |->
     ValidationResult(k, TitleAcme, "ORGANIZATION", DescSupported,
                      entries[k].confidence, entries[k].is_hallucinated,
                      "groq",
                      IF entries[k].is_hallucinated
                        THEN <<Issue("", WordAbsent, 0), Issue("", WordFound, 0)>>
                        ELSE <<>>,
                      1)]

\* the longest of the result lists with more than TopCount flagged results
MaxLongReport == 13
\* such lists: confidences 0.2, 0.8, 0.9 in turn, at most one result unflagged
LongReports ==
  {[k \in 1..n |->
      [confidence |-> <<2, 8, 9>>[((a * k) % 3) + 1] * (ConfScale \div 10),
       is_hallucinated |-> k # unflagged]] :
     n \in (TopCount + 1)..MaxLongReport, a \in {1, 2}, unflagged \in 0..2}

\* one call of generate_report
GenerateReport ==
  /\ invocation = NoInvocation
  /\ \E entries \in SeqsUpTo(ReportEntries, MaxReport) \cup LongReports :
       invocation' = [fn |-> "generate_report",
                      results |-> ReportResults(entries),
                      ret |-> generate_report(ReportResults(entries))]
  /\ UNCHANGED <<batch, indexing>>

\* one call of get_source_texts: the row's cell holds ids as a list, or as
\* the JSON text of the list
GetSourceTexts ==
  /\ invocation = NoInvocation
  /\ \E ids \in SeqsUpTo({IdT1, IdT2, IdMissing}, MaxIds),
        cell \in {"list", "str"} :
       LET entity_row ==
             [id |-> 1, title |-> TitleAcme, type |-> "ORGANIZATION",
              description |-> DescSupported,
              text_unit_ids |-> IF cell = "list" THEN ListCell(ids)
                                ELSE StrCell(JsonDumpsIds(ids))]
       IN invocation' = [fn |-> "get_source_texts", ids |-> ids,
                         entity_row |-> entity_row,
                         ret |-> get_source_texts(entity_row)]
  /\ UNCHANGED <<batch, indexing>>

\* 'VERDICT:'
LabelVerdict == <<"V","E","R","D","I","C","T",":">>
\* what the model can put after 'VERDICT:'
SpotVerdicts ==
  {[text |-> <<"A","C","C","U","R","A","T","E">>, hallucinated |-> FALSE],
   [text |-> WordHallucinated, hallucinated |-> TRUE]}
\* what the model can put after 'CONFIDENCE:' of the spot check
SpotConfidences == {<<"0",".","9">>, <<"0",".","1">>, <<"h","i","g","h">>}
\* what the model can put after 'REASON:': 'Matches the source.',
\* 'Not in the source.', 'Nothing is hallucinated.'
SpotReasons ==
  {<<"M","a","t","c","h","e","s"," ","t","h","e"," ","s","o","u","r","c","e",".">>,
   <<"N","o","t"," ","i","n"," ","t","h","e"," ","s","o","u","r","c","e",".">>,
   <<"N","o","t","h","i","n","g"," ","i","s"," ","h","a","l","l","u","c","i","n","a","t","e","d",".">>}
\* a reply in the format the spot check's prompt asks for
SpotReplyText(verdict, confidence, reason) ==
  LabelVerdict \o <<" ">> \o verdict \o <<"\n">>
  \o LabelConfidence \o <<" ">> \o confidence \o <<"\n">>
  \o LabelReason \o <<" ">> \o reason
\* what the remote call of _groq_spot_check can end in, with the verdict and
\* the reason of a reply
SpotCallOutcomes ==
  {[verdict |-> "none", reason |-> <<>>, remote |-> RemoteError(ConnectionError)],
   [verdict |-> "none", reason |-> <<>>, remote |-> RemoteNone]}
  \cup {[verdict |-> IF v.hallucinated THEN "HALLUCINATED" ELSE "ACCURATE",
         reason |-> r,
         remote |-> RemoteContent(SpotReplyText(v.text, c, r))] :
          v \in SpotVerdicts, c \in SpotConfidences, r \in SpotReasons}

\* one call of HybridValidator._groq_spot_check
GroqSpotCheck ==
  /\ invocation = NoInvocation
  /\ method = "hybrid"
  /\ groq_available
  /\ \E o \in SpotCallOutcomes, name \in {TitleAcme, TitleZeta} :
       invocation' = [fn |-> "_groq_spot_check", outcome |-> o,
                      ret |-> _groq_spot_check(name, "ORGANIZATION",
                                               DescUncertain, o.remote)]
  /\ UNCHANGED <<batch, indexing>>

\* 'Acme makes maps', 'Acme sells globes': sentences the loop scores
SentenceMaps == <<"A","c","m","e"," ","m","a","k","e","s"," ","m","a","p","s">>
SentenceGlobes ==
  <<"A","c","m","e"," ","s","e","l","l","s"," ","g","l","o","b","e","s">>
\* 'It is old': a sentence the loop skips
SentenceShort == <<"I","t"," ","i","s"," ","o","l","d">>
\* the description whose sentences these are: each followed by its full stop
DescriptionOf(sentences) ==
  IF sentences = <<>> THEN <<>>
  ELSE Join(sentences, <<".", " ">>) \o <<".">>
\* the sentence lists of the scored descriptions
ScoredSentences ==
  {<<>>, <<SentenceShort>>, <<SentenceMaps>>,
   <<SentenceMaps, SentenceShort, SentenceGlobes>>}
\* the identifier lists of the scored rows: one, two and four text units
ScoredIds == {<<IdT1>>, <<IdT1, IdT2>>, <<IdT1, IdT1, IdT1, IdT2>>}
\* the entailment probabilities the NLI model can give a pair
EntailmentProbs == {0, 5 * (ConfScale \div 10), ConfScale}
\* the NLI models: every table over the pairs the loop can form
EntailmentTables ==
  [{TextT1, TextT2} \X {SentenceMaps, SentenceGlobes} -> EntailmentProbs]

\* one call of GPUNLIValidator.validate_entity with an NLI model of its own
ValidateEntityScored ==
  /\ invocation = NoInvocation
  /\ method = "gpu"
  /\ \E sentences \in ScoredSentences, ids \in ScoredIds,
        probs \in EntailmentTables, f \in BOOLEAN :
       LET entity_row ==
             [id |-> 1, title |-> TitleAcme, type |-> "ORGANIZATION",
              description |-> DescriptionOf(sentences),
              text_unit_ids |-> ListCell(ids)]
           env == [kind |-> "inference", fails |-> f,
                   nli |-> TableModel(probs)]
       IN invocation' = [fn |-> "validate_entity", entity_row |-> entity_row,
                         env |-> env, requests |-> 0,
                         sentences |-> sentences,
                         ret |-> ValidateEntityIn(entity_row, env)]
  /\ UNCHANGED <<batch, indexing>>

SpecCallsNext ==
  \/ ValidateEntityScored
  \/ GroqSpotCheck
  \/ ValidateEntity
  \/ ParseApiResponse
  \/ GenerateReport
  \/ GetSourceTexts

SpecCalls == Init /\ [][SpecCallsNext]_vars

(***************************************************************************)
(* What the properties of single calls read off a state.                   *)
(***************************************************************************)
Validated == invocation.fn = "validate_entity"
\* the call returned a ValidationResult
ValidatedResult == Validated /\ ~invocation.ret.raised
\* the row's identifiers resolve to no text: none is an id of a text unit
NoSourceRow == invocation.entity_row.text_unit_ids \in NoSourceCells

(***************************************************************************)
(* C11  Evidence-absent fail-open.                                         *)
(***************************************************************************)
\* C11: for a row whose fragment identifiers resolve to no source text,
\* validate_entity of each of the three validators returns confidence 0.0
\* and is_hallucinated = False whatever the description is, and it makes no
\* remote or inference call: no call can fail, and no time goes by in one.
C11_EvidenceAbsentFailOpen ==
  (Validated /\ NoSourceRow) =>
     /\ ~invocation.ret.raised
     /\ invocation.ret.result.confidence = 0
     /\ ~invocation.ret.result.is_hallucinated
     /\ invocation.ret.result.validation_time = 0
     /\ \A i \in 1..Len(invocation.ret.result.issues) :
          invocation.ret.result.issues[i].msg # "API error: "

\* the NLI validator scored an unsupported description whose str cell names
\* a missing text unit, with an inference model that raises when called
C11_Witness ==
  /\ Validated /\ NoSourceRow
  /\ method = "gpu"
  /\ invocation.env.fails
  /\ invocation.entity_row.text_unit_ids.kind = "str"
  /\ invocation.entity_row.description = DescLowCoverage
  /\ invocation.ret.result.confidence = 0

(***************************************************************************)
(* C12  Confidence range.                                                  *)
(***************************************************************************)
\* C12: every ValidationResult a validator returns has a confidence in
\* [0, 1], whatever the remote model replies (a CONFIDENCE value outside
\* [0, 1] included) and whatever the inference model returns.
C12_ConfidenceRange ==
  ValidatedResult =>
     /\ invocation.ret.result.confidence >= 0
     /\ invocation.ret.result.confidence <= ConfScale

\* the call was HybridValidator.validate_entity on a row with source text
\* whose description has MaxTerms key terms, k of them in the source text
HybridOnWords(k) ==
  /\ Validated
  /\ method = "hybrid"
  /\ ~NoSourceRow
  /\ invocation.entity_row.description = WordsDescription(k, MaxTerms)
\* the row's title is in the source text: 'Acme' is, 'Zeta' is not
NameInSource == invocation.entity_row.title = TitleAcme
\* k / MaxTerms lies in 0.3..0.7, the ends included
InBand(k) == 10 * k >= 3 * MaxTerms /\ 10 * k <= 7 * MaxTerms

(***************************************************************************)
(* C13  Hybrid decision table.                                             *)
(***************************************************************************)
\* C13: on an entity with source text the hybrid validator decides by
\* (coverage, name_found), in this order: coverage > 0.7 and name_found
\* gives confidence 0.1, not hallucinated; else coverage < 0.3 or not
\* name_found gives confidence 0.8, hallucinated; else (0.3 <= coverage <=
\* 0.7 and name_found) the entity goes to the escalation path: to the spot
\* check when the remote client is there, to the midpoint result when not.
C13_HybridDecisionTable ==
  \A k \in 0..MaxTerms :
     HybridOnWords(k) =>
       LET r == invocation.ret.result
       IN /\ ~invocation.ret.raised
          /\ IF 10 * k > 7 * MaxTerms /\ NameInSource
               THEN /\ r.confidence = 1 * (ConfScale \div 10)
                    /\ ~r.is_hallucinated
                    /\ r.method = "hybrid_text"
             ELSE IF 10 * k < 3 * MaxTerms \/ ~NameInSource
               THEN /\ r.confidence = 8 * (ConfScale \div 10)
                    /\ r.is_hallucinated
                    /\ r.method = "hybrid_text"
             ELSE IF groq_available
               THEN r.method = "hybrid_groq" /\ r.validation_time > 0
             ELSE r.method = "hybrid_text"
                  /\ r.confidence = 5 * (ConfScale \div 10)

\* coverage exactly 0.7 with the name found went to the spot check
C13_Witness ==
  /\ HybridOnWords(7)
  /\ 10 * 7 = 7 * MaxTerms
  /\ NameInSource
  /\ groq_available
  /\ invocation.ret.result.method = "hybrid_groq"

(***************************************************************************)
(* C14  Hybrid fallback without the remote model.                          *)
(***************************************************************************)
\* C14: for an entity in the uncertain band, a hybrid validator without the
\* remote client returns confidence 0.5 and is_hallucinated = (coverage <
\* 0.5), with one issue that notes the uncertainty and the coverage (to a
\* tenth of a percent); coverage 0.5 gives is_hallucinated = False.
C14_HybridFallback ==
  \A k \in 0..MaxTerms :
     (HybridOnWords(k) /\ InBand(k) /\ NameInSource /\ ~groq_available) =>
       LET r == invocation.ret.result
       IN /\ r.confidence = 5 * (ConfScale \div 10)
          /\ r.is_hallucinated = (2 * k < MaxTerms)
          /\ Len(r.issues) = 1
          /\ r.issues[1].msg = "Uncertain (coverage: )"
          /\ 2 * (r.issues[1].num * MaxTerms - 1000 * k) <= MaxTerms
          /\ 2 * (1000 * k - r.issues[1].num * MaxTerms) <= MaxTerms

\* coverage exactly 0.5 without the remote client: not hallucinated
C14_Witness ==
  /\ HybridOnWords(5)
  /\ 2 * 5 = MaxTerms
  /\ NameInSource
  /\ ~groq_available
  /\ ~invocation.ret.result.is_hallucinated
  /\ invocation.ret.result.confidence = 5 * (ConfScale \div 10)

\* the call was _parse_api_response
Parsed == invocation.fn = "_parse_api_response"
\* the raw confidence of the reply: the value of its CONFIDENCE token, 0.0
\* for a token float() refuses
RawConfidence(reply) == IF reply.token.ok THEN reply.token.val ELSE 0

(***************************************************************************)
(* C15  LLM confidence reconciliation.                                     *)
(***************************************************************************)
\* C15: for a reply with flag SUPPORTED and raw confidence raw, the
\* confidence _parse_api_response reports is 0.1 when SUPPORTED is yes and
\* raw > 0.5, 0.8 when SUPPORTED is no and raw < 0.5, and raw in every other
\* case: (yes, 0.9) gives 0.1, (no, 0.2) gives 0.8, (yes, 0.3) gives 0.3,
\* and raw = 0.5 is kept for both flags.
C15_ConfidenceReconciliation ==
  Parsed =>
    LET raw == RawConfidence(invocation.reply)
        yes == invocation.reply.supported
        confidence == invocation.ret.confidence
    IN /\ (yes /\ 2 * raw > ConfScale) => confidence = 1 * (ConfScale \div 10)
       /\ (~yes /\ 2 * raw < ConfScale) => confidence = 8 * (ConfScale \div 10)
       /\ (yes /\ 2 * raw <= ConfScale) => confidence = raw
       /\ (~yes /\ 2 * raw >= ConfScale) => confidence = raw
       /\ (yes /\ raw = 9 * (ConfScale \div 10))
            => confidence = 1 * (ConfScale \div 10)
       /\ (~yes /\ raw = 2 * (ConfScale \div 10))
            => confidence = 8 * (ConfScale \div 10)
       /\ (yes /\ raw = 3 * (ConfScale \div 10))
            => confidence = 3 * (ConfScale \div 10)

\* a reply 'SUPPORTED: YES' with 'CONFIDENCE: 0.5' kept its 0.5
C15_Witness ==
  /\ Parsed
  /\ invocation.reply.supported
  /\ invocation.reply.token.ok
  /\ 2 * invocation.reply.token.val = ConfScale
  /\ 2 * invocation.ret.confidence = ConfScale

(***************************************************************************)
(* C16  is_hallucinated is the negation of SUPPORTED.                      *)
(***************************************************************************)
\* C16: in the LLM-prompt validator is_hallucinated is the negation of the
\* reply's SUPPORTED flag for every raw confidence, in what
\* _parse_api_response returns and in the result validate_entity makes of it.
C16_HallucinatedIsNotSupported ==
  /\ Parsed => invocation.ret.is_hallucinated = ~invocation.reply.supported
  /\ \A r \in GroqReplies :
       (/\ Validated
        /\ method = "groq"
        /\ ~NoSourceRow
        /\ invocation.env = RemoteContent(r.text))
       => invocation.ret.result.is_hallucinated = ~r.supported

\* a reply 'SUPPORTED: NO' with 'CONFIDENCE: 0.0' was flagged
C16_Witness ==
  /\ Parsed
  /\ ~invocation.reply.supported
  /\ invocation.reply.token.ok
  /\ invocation.reply.token.val = 0
  /\ invocation.ret.is_hallucinated

(***************************************************************************)
(* C17  LLM-prompt validator failure handling.                             *)
(***************************************************************************)
\* C17: for an entity with source text, when the one remote request fails
\* with a network error, returns an empty response, or returns a reply
\* without the labeled SUPPORTED/CONFIDENCE/ISSUES lines, validate_entity
\* returns confidence 0.0, is_hallucinated = False and an issues list that
\* records the error.
C17_GroqFailureHandling ==
  (/\ Validated
   /\ method = "groq"
   /\ ~NoSourceRow
   /\ invocation.env \in {RemoteError(ConnectionError), RemoteNone,
                          RemoteContent(ReplyMalformed)})
  => /\ ~invocation.ret.raised
     /\ invocation.ret.result.confidence = 0
     /\ ~invocation.ret.result.is_hallucinated
     /\ invocation.ret.result.issues # <<>>

(***************************************************************************)
(* C18  NLI validator infrastructure failure.                              *)
(***************************************************************************)
\* C18: when the inference call raises while validate_batch has an entity
\* scored by the NLI validator, the batch output still holds a result for
\* that entity, which is fail-open (is_hallucinated = False) and carries the
\* diagnostic in its issues.
C18_NLIFailureAnnotated ==
  (method = "gpu" /\ pc = "done") =>
    \A i \in 1..Len(calls) :
       calls[i].raised =>
         \E k \in 1..Len(results) :
            /\ results[k].entity_id = calls[i].id
            /\ ~results[k].is_hallucinated
            /\ results[k].issues # <<>>

\* the call was generate_report on a list that is not empty
Reported == invocation.fn = "generate_report" /\ invocation.results # <<>>
\* the confidences, in tenths, and the flags of the reported results
ReportedTenths ==
  [i \in 1..Len(invocation.results) |->
     invocation.results[i].confidence \div (ConfScale \div 10)]
ReportedFlags ==
  [i \in 1..Len(invocation.results) |-> invocation.results[i].is_hallucinated]
\* shown * den is num to the nearest unit of the format
ShownAs(shown, num, den) ==
  2 * (shown * den - num) <= den /\ 2 * (num - shown * den) <= den

(***************************************************************************)
(* C19  Report aggregation.                                                *)
(***************************************************************************)
\* C19: for every result list that is not empty generate_report gives the
\* total count, the count of flagged results, the percentage flagged / total
\* (to one decimal) and the mean confidence sum / total (to three decimals);
\* confidences [0.2, 0.8, 0.9] with flags [False, True, True] give 66.7% and
\* 0.633.
C19_ReportAggregation ==
  Reported =>
    LET n == Len(invocation.results)
        flagged == Cardinality({i \in 1..n : ReportedFlags[i]})
        report == invocation.ret.result
    IN /\ ~invocation.ret.raised
       /\ report.total = n
       /\ report.hallucinated = flagged
       /\ ShownAs(report.percent_tenths, 1000 * flagged, n)
       /\ ShownAs(report.average_confidence_thousandths,
                  100 * SumSeq(ReportedTenths), n)
       /\ (ReportedTenths = <<2, 8, 9>> /\ ReportedFlags = <<FALSE, TRUE, TRUE>>)
            => /\ report.percent_tenths = 667
               /\ report.average_confidence_thousandths = 633

\* the report of confidences [0.2, 0.8, 0.9] with flags [False, True, True]
C19_Witness ==
  /\ Reported
  /\ ReportedTenths = <<2, 8, 9>>
  /\ ReportedFlags = <<FALSE, TRUE, TRUE>>
  /\ invocation.ret.result.total = 3
  /\ invocation.ret.result.hallucinated = 2

(***************************************************************************)
(* C20  SourceCorpus lookup.                                               *)
(***************************************************************************)
\* C20: get_source_texts returns the texts of the row's fragment identifiers
\* that the corpus holds, in the order of the identifier list; identifiers
\* the corpus lacks are skipped without an error; and the result is the same
\* for the list and for its serialized text.
C20_SourceLookup ==
  invocation.fn = "get_source_texts" =>
    LET held == SelectSeq(invocation.ids,
                          LAMBDA tid : tid = IdT1 \/ tid = IdT2)
    IN invocation.ret =
         [i \in 1..Len(held) |-> IF held[i] = IdT1 THEN TextT1 ELSE TextT2]

\* the str cell '["t2", "tx", "t1"]' gave the texts of t2 and t1
C20_Witness ==
  /\ invocation.fn = "get_source_texts"
  /\ invocation.entity_row.text_unit_ids.kind = "str"
  /\ invocation.ids = <<IdT2, IdMissing, IdT1>>
  /\ invocation.ret = <<TextT2, TextT1>>

\* the call was _groq_spot_check
SpotChecked == invocation.fn = "_groq_spot_check"

(***************************************************************************)
(* C21  Hybrid escalation mapping.                                         *)
(***************************************************************************)
\* C21: in _groq_spot_check every reply whose VERDICT is ACCURATE gives
\* confidence 0.3 and not hallucinated, every reply whose VERDICT is
\* HALLUCINATED gives confidence 0.7 and hallucinated, whatever its
\* CONFIDENCE and REASON lines hold; a failure of the call gives confidence
\* 0.5 and not hallucinated, with the error as the one issue.
C21_EscalationMapping ==
  SpotChecked =>
    LET o == invocation.outcome
        r == invocation.ret
    IN /\ o.verdict = "ACCURATE" =>
            r.confidence = 3 * (ConfScale \div 10) /\ ~r.is_hallucinated
       /\ o.verdict = "HALLUCINATED" =>
            r.confidence = 7 * (ConfScale \div 10) /\ r.is_hallucinated
       /\ o.verdict = "none" =>
            /\ r.confidence = 5 * (ConfScale \div 10)
            /\ ~r.is_hallucinated
            /\ Len(r.issues) = 1
            /\ r.issues[1].msg = "API error: "

(***************************************************************************)
(* C22  Remote-call discipline.                                            *)
(***************************************************************************)
\* C22: one validate_entity makes at most one remote request; the LLM-prompt
\* validator makes exactly one when the row has source text and none when it
\* has not; the hybrid validator makes one if and only if the row has source
\* text, the name is found, 0.3 <= coverage <= 0.7 and the remote client is
\* there: none on the two fast paths, none on the fallback.
C22_RemoteCallDiscipline ==
  (Validated /\ method \in {"groq", "hybrid"}) =>
     /\ invocation.requests \in {0, 1}
     /\ invocation.ret.result.validation_time = invocation.requests
     /\ NoSourceRow => invocation.requests = 0
     /\ (method = "groq" /\ ~NoSourceRow) => invocation.requests = 1
     /\ \A k \in 0..MaxTerms :
          HybridOnWords(k) =>
            (invocation.requests = 1
               <=> (NameInSource /\ InBand(k) /\ groq_available))

\* coverage exactly 0.3 with the name found and the client there: one request
C22_Witness ==
  /\ HybridOnWords(3)
  /\ 10 * 3 = 3 * MaxTerms
  /\ NameInSource
  /\ groq_available
  /\ invocation.requests = 1

\* the call was the NLI validator's, with a table for its model, and it
\* returned a result
Scored ==
  /\ ValidatedResult
  /\ method = "gpu"
  /\ invocation.env.nli.kind = "table"
\* the sentences of the scored description with 10 characters or more
LongSentences == SelectSeq(invocation.sentences, LAMBDA x : Len(x) >= 10)
\* the texts of the first three identifiers of the scored row
FirstFragments ==
  LET ids == invocation.entity_row.text_unit_ids.val
  IN {IF ids[i] = IdT1 THEN TextT1 ELSE TextT2 :
        i \in 1..(IF Len(ids) < 3 THEN Len(ids) ELSE 3)}
\* the largest entailment probability of sentence x over those texts
BestEntailment(x) ==
  LET given == {invocation.env.nli.probs[<<t, x>>] : t \in FirstFragments}
  IN CHOOSE b \in given : \A g \in given : g <= b

(***************************************************************************)
(* C23  NLI scoring rule.                                                  *)
(***************************************************************************)
\* C23: for a row with source text the NLI validator's confidence is the
\* mean, over the description's sentences of 10 characters or more, of
\* 1 - (the largest entailment probability of the sentence over the first
\* three source texts), and 0.0 when there is no such sentence;
\* is_hallucinated is confidence > 0.5, so 0.5 itself is not flagged, and a
\* description whose every sentence has entailment 1.0 gets 0.0, not flagged.
C23_NLIScoringRule ==
  Scored =>
    LET r == invocation.ret.result
        n == Len(LongSentences)
        unsupported == [i \in 1..n |-> ConfScale - BestEntailment(LongSentences[i])]
    IN /\ n = 0 => r.confidence = 0
       /\ n > 0 => r.confidence * n = SumSeq(unsupported)
       /\ r.is_hallucinated <=> 2 * r.confidence > ConfScale
       /\ (\A i \in 1..n : BestEntailment(LongSentences[i]) = ConfScale)
            => r.confidence = 0 /\ ~r.is_hallucinated

\* two scored sentences, one entailed in full and one not at all by the
\* first three texts, and a fourth text that entails the second: the mean
\* is 0.5 and the entity is not flagged
C23_Witness ==
  /\ Scored
  /\ Len(LongSentences) = 2
  /\ Len(invocation.sentences) = 3
  /\ Len(invocation.entity_row.text_unit_ids.val) = 4
  /\ invocation.env.nli.probs[<<TextT1, SentenceMaps>>] = ConfScale
  /\ invocation.env.nli.probs[<<TextT1, SentenceGlobes>>] = 0
  /\ invocation.env.nli.probs[<<TextT2, SentenceGlobes>>] = ConfScale
  /\ 2 * invocation.ret.result.confidence = ConfScale
  /\ ~invocation.ret.result.is_hallucinated

(***************************************************************************)
(* C24  Report ranking.                                                    *)
(***************************************************************************)
\* C24: generate_report lists at most 10 entities, each a flagged result of
\* the list it was given, in descending order of confidence, two of equal
\* confidence in the order they have in that list; and the list it was
\* given keeps its own order.
C24_ReportRanking ==
  Reported =>
    LET rs == invocation.results
        top == invocation.ret.result.top
    IN /\ Len(top) <= 10
       /\ \A i \in 1..Len(top) :
            /\ top[i].is_hallucinated
            /\ top[i].entity_id \in 1..Len(rs)
            /\ top[i] = rs[top[i].entity_id]
       /\ \A i, j \in 1..Len(top) :
            i < j =>
              /\ top[i].confidence >= top[j].confidence
              /\ top[i].confidence = top[j].confidence
                   => top[i].entity_id < top[j].entity_id
       /\ invocation.ret.result.results = rs

\* a list with more than 10 flagged results, several of equal confidence:
\* 10 are listed, the first two of them with the same confidence
C24_Witness ==
  /\ Reported
  /\ Cardinality({k \in 1..Len(invocation.results) :
                    invocation.results[k].is_hallucinated}) > 10
  /\ Len(invocation.ret.result.top) = 10
  /\ invocation.ret.result.top[1].confidence
       = invocation.ret.result.top[2].confidence
  /\ invocation.ret.result.top[1].entity_id
       < invocation.ret.result.top[2].entity_id

(***************************************************************************)
(* C28  Hybrid validator, description without key terms.                   *)
(***************************************************************************)
\* C28: for a row with source text whose description has no key term (an
\* empty description, one of words of at most 3 characters, one of words
\* that carry punctuation or digits) the hybrid validator takes coverage
\* 0.0 and returns confidence 0.8 and is_hallucinated = True with a
\* low-coverage issue, also when the name is found in the source text.
C28_HybridNoKeyTerms ==
  (/\ Validated
   /\ method = "hybrid"
   /\ ~NoSourceRow
   /\ invocation.entity_row.description
        \in {<<>>, DescNoTerms, DescPunctuated}) =>
     LET r == invocation.ret.result
     IN /\ ~invocation.ret.raised
        /\ r.confidence = 8 * (ConfScale \div 10)
        /\ r.is_hallucinated
        /\ r.method = "hybrid_text"
        /\ invocation.requests = 0
        /\ \E i \in 1..Len(r.issues) :
             r.issues[i].msg = "Low term coverage ()" /\ r.issues[i].num = 0
        /\ NameInSource => Len(r.issues) = 1

\* 'maps, boats. acme2000' for the entity 'Acme', whose name is in the
\* source text, with the remote client there: flagged at confidence 0.8
C28_Witness ==
  /\ Validated
  /\ method = "hybrid"
  /\ groq_available
  /\ ~NoSourceRow
  /\ NameInSource
  /\ invocation.entity_row.description = DescPunctuated
  /\ invocation.ret.result.is_hallucinated
  /\ invocation.ret.result.confidence = 8 * (ConfScale \div 10)

(***************************************************************************)
(* C29  LLM-prompt validator: flag and confidence agree.                   *)
(***************************************************************************)
\* C29: for every parsed reply whose raw confidence is in [0, 1], the result
\* of _parse_api_response has confidence >= 0.5 when is_hallucinated is
\* True and confidence <= 0.5 when it is False.
C29_FlagConfidenceConsistency ==
  (/\ Parsed
   /\ RawConfidence(invocation.reply) >= 0
   /\ RawConfidence(invocation.reply) <= ConfScale) =>
     /\ invocation.ret.is_hallucinated
          => 2 * invocation.ret.confidence >= ConfScale
     /\ ~invocation.ret.is_hallucinated
          => 2 * invocation.ret.confidence <= ConfScale

\* 'SUPPORTED: YES' with 'CONFIDENCE: 0.9': not flagged, at confidence 0.1
C29_Witness ==
  /\ Parsed
  /\ invocation.reply.supported
  /\ invocation.reply.token.ok
  /\ invocation.reply.token.val = 9 * (ConfScale \div 10)
  /\ ~invocation.ret.is_hallucinated
  /\ 2 * invocation.ret.confidence <= ConfScale

(***************************************************************************)
(* GraphRAGManager.run_indexing (pipeline_orchestrator.py): the subprocess *)
(* writes lines to its two pipes, a reader thread per pipe moves them to a *)
(* queue, and the thread that runs run_indexing takes them off the queues  *)
(* and logs them, in its loop while the subprocess runs and in the drain   *)
(* after it.  The threads and the subprocess run in any interleaving.      *)
(***************************************************************************)
\* the most lines the subprocess writes to one stream
MaxLines == 2

\* the k-th line the subprocess writes to stream s, as readline returns it:
\* 'STDOUT line k\n' is modelled by 'o', k, '\n'
LineText(s, k) ==
  <<IF s = "STDOUT" THEN "o" ELSE "e", Digits[k + 1], "\n">>
\* how the lines of stream s are logged: logging.info, logging.warning
LogLevel(s) == IF s = "STDOUT" THEN "info" ELSE "warning"
\* what the subprocess init and Popen can come to
StartOutcomes == {"started", "init failed"}

\* run_indexing up to the call of monitor_progress: init if needed, Popen,
\* the two queues, the two daemon threads started
RunIndexing ==
  /\ monitor = "idle"
  /\ \E outcome \in StartOutcomes :
       IF outcome = "init failed"
         THEN /\ monitor' = "raised init"
              /\ UNCHANGED <<process, readers>>
         ELSE /\ monitor' = "poll"
              /\ process' = [process EXCEPT !.started = TRUE]
              /\ readers' = [s \in Streams |-> [pc |-> "readline", line |-> <<>>]]
  /\ UNCHANGED <<batch, invocation, pipes, queues, logged>>

\* the subprocess writes its next line to stream s
ProcessWrites(s) ==
  /\ process.started /\ ~process.exited
  /\ process.written[s] < MaxLines
  /\ pipes' = [pipes EXCEPT
                 ![s] = Append(@, LineText(s, process.written[s] + 1))]
  /\ process' = [process EXCEPT !.written[s] = @ + 1]
  /\ UNCHANGED <<batch, invocation, queues, readers, monitor, logged>>

\* the subprocess exits with return code rc; its ends of the pipes close
ProcessExits(rc) ==
  /\ process.started /\ ~process.exited
  /\ process' = [process EXCEPT !.exited = TRUE, !.return_code = rc]
  /\ UNCHANGED <<batch, invocation, pipes, queues, readers, monitor, logged>>

\* read_output, "for line in iter(pipe.readline, '')": the thread of stream
\* s gets the next line, or '' at the end of the pipe and closes it; it
\* waits while the pipe is empty and open
ReaderReadline(s) ==
  /\ readers[s].pc = "readline"
  /\ IF pipes[s] # <<>>
       THEN /\ readers' = [readers EXCEPT ![s] = [pc |-> "put",
                                                  line |-> Head(pipes[s])]]
            /\ pipes' = [pipes EXCEPT ![s] = Tail(@)]
       ELSE /\ process.exited
            /\ readers' = [readers EXCEPT ![s] = [pc |-> "closed",
                                                  line |-> <<>>]]
            /\ UNCHANGED pipes
  /\ UNCHANGED <<batch, invocation, process, queues, monitor, logged>>

\* read_output, "queue.put((prefix, line.strip()))"
ReaderPut(s) ==
  /\ readers[s].pc = "put"
  /\ queues' = [queues EXCEPT
                  ![s] = Append(@, <<s, Strip(readers[s].line, Whitespace)>>)]
  /\ readers' = [readers EXCEPT ![s] = [pc |-> "readline", line |-> <<>>]]
  /\ UNCHANGED <<batch, invocation, process, pipes, monitor, logged>>

\* monitor_progress, "while process.poll() is None"; after the loop
\* process.wait() returns at once and time.sleep(2) goes by
MonitorPoll ==
  /\ monitor = "poll"
  /\ monitor' = IF process.exited THEN "drain STDOUT" ELSE "get STDOUT"
  /\ UNCHANGED <<batch, invocation, process, pipes, queues, readers, logged>>

\* monitor_progress, one get_nowait of the loop: a line is logged, or Empty
\* is passed over
MonitorGet(s) ==
  /\ monitor = IF s = "STDOUT" THEN "get STDOUT" ELSE "get STDERR"
  /\ IF queues[s] # <<>>
       THEN /\ logged' = Append(logged, [level |-> LogLevel(s),
                                         prefix |-> Head(queues[s])[1],
                                         line |-> Head(queues[s])[2]])
            /\ queues' = [queues EXCEPT ![s] = Tail(@)]
       ELSE UNCHANGED <<queues, logged>>
  /\ monitor' = IF s = "STDOUT" THEN "get STDERR" ELSE "sleep"
  /\ UNCHANGED <<batch, invocation, process, pipes, readers>>

\* monitor_progress, "time.sleep(1)"
MonitorSleep ==
  /\ monitor = "sleep"
  /\ monitor' = "poll"
  /\ UNCHANGED <<batch, invocation, process, pipes, queues, readers, logged>>

\* "Collect any remaining output": one pass of a "while True" loop, which
\* logs a line or breaks on Empty
MonitorDrain(s) ==
  /\ monitor = IF s = "STDOUT" THEN "drain STDOUT" ELSE "drain STDERR"
  /\ IF queues[s] # <<>>
       THEN /\ logged' = Append(logged, [level |-> LogLevel(s),
                                         prefix |-> Head(queues[s])[1],
                                         line |-> Head(queues[s])[2]])
            /\ queues' = [queues EXCEPT ![s] = Tail(@)]
            /\ UNCHANGED monitor
       ELSE /\ monitor' = IF s = "STDOUT" THEN "drain STDERR" ELSE "exit code"
            /\ UNCHANGED <<queues, logged>>
  /\ UNCHANGED <<batch, invocation, process, pipes, readers>>

\* "if return_code != 0: ... raise RuntimeError", else the return
MonitorFinish ==
  /\ monitor = "exit code"
  /\ monitor' = IF process.return_code # 0 THEN "raised" ELSE "returned"
  /\ UNCHANGED <<batch, invocation, process, pipes, queues, readers, logged>>

IndexingNext ==
  \/ RunIndexing
  \/ \E s \in Streams : ProcessWrites(s)
  \/ \E rc \in {0, 1} : ProcessExits(rc)
  \/ \E s \in Streams : ReaderReadline(s)
  \/ \E s \in Streams : ReaderPut(s)
  \/ MonitorPoll
  \/ \E s \in Streams : MonitorGet(s)
  \/ MonitorSleep
  \/ \E s \in Streams : MonitorDrain(s)
  \/ MonitorFinish

SpecIndexing == Init /\ [][IndexingNext]_vars

\* line k of stream s has been logged
Logged(s, k) ==
  \E i \in 1..Len(logged) :
     /\ logged[i].prefix = s
     /\ logged[i].line = Strip(LineText(s, k), Whitespace)

(***************************************************************************)
(* C30  Indexing output is fully logged.                                   *)
(***************************************************************************)
\* C30: when run_indexing returns, or raises on the exit code, every line
\* the subprocess wrote to stdout or stderr has been put on its queue and
\* logged, in every interleaving of the two reader threads, the loop of
\* monitor_progress and the final drain.
C30_IndexingOutputLogged ==
  monitor \in {"returned", "raised"} =>
     \A s \in Streams : \A k \in 1..process.written[s] : Logged(s, k)

====
